---- MODULE Spec2Model ----
(***************************************************************************)
(* Model of the BLE HTTP proxy (windows-proxy/proxy.js, ble-client.js,     *)
(* mock-ble-client.js, mock-ios-service/mock-ios.js).                      *)
(*                                                                         *)
(* Three specifications share the module:                                  *)
(*   SpecCodec  the framing codec: compressData, the 4-byte length header, *)
(*              chunking, handleResponseData, decompressData               *)
(*   Spec       the request multiplexer of BLEProxy on top of the          *)
(*              radio-link client's send and receive path                  *)
(*   SpecLife   the connection lifecycle of BLEClient                      *)
(* Each specification leaves the variables of the others at their initial  *)
(* values.                                                                 *)
(***************************************************************************)
EXTENDS Integers, Sequences, FiniteSets, Bags, TLC

(***************************************************************************)
(* Bounds of the model.                                                    *)
(***************************************************************************)
\* longest payload handed to compressData in SpecCodec
MaxPayloadLen == 3
\* largest compression threshold configured in SpecCodec
MaxThreshold == 2
\* number of browser requests in Spec
MaxReq == 2
\* number of connections established in Spec
MaxLinks == 2
\* number of clock ticks in Spec
MaxTicks == 2
\* number of connection attempts in SpecLife
MaxAttempts == 2
\* payload lengths 0..MaxSendLen, and LongSendLen, in SpecSend
MaxSendLen == 45
LongSendLen == 300
\* longest payload of the two frames streamed in SpecStream
MaxStreamPayload == 2
\* connect timeouts (the 10 s timer of connectToMockService) in one run
MaxTimeouts == 3

(***************************************************************************)
(* Bytes and buffers.  A Buffer is a sequence of bytes (0..255).           *)
(***************************************************************************)
\* the byte values payloads are drawn from: '{' (a JSON text starts with it)
\* and the first gzip magic byte
PayloadBytes == {123, 31}

\* sequences over S of length 0..n
RECURSIVE SeqsUpTo(_, _)
SeqsUpTo(S, n) ==
  IF n = 0 THEN {<<>>}
  ELSE LET shorter == SeqsUpTo(S, n - 1)
       IN  shorter \cup {Append(s, x) : s \in {t \in shorter : Len(t) = n - 1}, x \in S}

Min(a, b) == IF a < b THEN a ELSE b

\* Buffer.slice(start, end): zero-based, end exclusive, both clamped to the length
Slice(buf, start, end) ==
  LET s == Min(start, Len(buf))
      e == Min(end, Len(buf))
  IN  IF e <= s THEN <<>> ELSE SubSeq(buf, s + 1, e)

\* Buffer.concat(list)
RECURSIVE Concat(_)
Concat(list) == IF list = <<>> THEN <<>> ELSE Head(list) \o Concat(Tail(list))

\* the length header written big-endian (writeUInt32BE)
WriteUInt32BE(n) ==
  << (n \div 16777216) % 256, (n \div 65536) % 256, (n \div 256) % 256, n % 256 >>

\* Buffer.alloc(4) + writeUInt32LE(n, 0)
WriteUInt32LE(n) ==
  << n % 256, (n \div 256) % 256, (n \div 65536) % 256, (n \div 16777216) % 256 >>

\* the largest integer of the model checker; readUInt32LE goes up to 2^32 - 1
MaxInt == 2147483647

\* buf.readUInt32LE(0); a value above MaxInt is read as MaxInt, a length no
\* buffer of the model reaches either
ReadUInt32LE(buf) ==
  IF buf[4] >= 128 THEN MaxInt
  ELSE buf[1] + 256 * buf[2] + 65536 * buf[3] + 16777216 * buf[4]

(***************************************************************************)
(* Compression pipeline.  zlib is modelled by what the proxy relies on:    *)
(* gzip output starts with the magic bytes 1f 8b and ends with a size      *)
(* trailer, the body is an invertible transformation of the input, and     *)
(* gunzip rejects anything that is not such a stream.                      *)
(***************************************************************************)
GzipId1 == 31
GzipId2 == 139

RECURSIVE Reverse(_)
Reverse(s) == IF s = <<>> THEN <<>> ELSE Append(Reverse(Tail(s)), Head(s))

\* zlib.gzip(buffer)
Gzip(buf) == <<GzipId1, GzipId2>> \o Reverse(buf) \o <<Len(buf) % 256>>

\* zlib.gunzip(data): [ok |-> FALSE] is the error callback
Gunzip(data) ==
  IF /\ Len(data) >= 3
     /\ data[1] = GzipId1
     /\ data[2] = GzipId2
     /\ data[Len(data)] = (Len(data) - 3) % 256
  THEN [ok |-> TRUE, data |-> Reverse(SubSeq(data, 3, Len(data) - 1))]
  ELSE [ok |-> FALSE, data |-> <<>>]

\* BLEProxy.compressData: raw below the threshold or with debug.skipCompression
compressData(data, threshold, skipCompression) ==
  IF Len(data) < threshold \/ skipCompression THEN data ELSE Gzip(data)

\* BLEProxy.decompressData: resolves with the gunzip output, rejects on error
decompressData(data) == Gunzip(data)

(***************************************************************************)
(* Framing.                                                                *)
(***************************************************************************)
\* BLE characteristic write limit
maxChunkSize == 20

\* sendChunkedData / MockBLEClient.sendRequest: header with total length + data
fullData(data) == WriteUInt32LE(Len(data)) \o data

\* the reassembly state of a receiver before any data arrived
IdleRx == [receiving |-> FALSE, receivedChunks |-> <<>>,
           receivedLength |-> 0, expectedLength |-> 0]

\* handleResponseData without the reset of receivedLength on completion
handleResponseData_KeepsLength(rx, data) ==
  IF ~rx.receiving /\ Len(data) < 4
  THEN [rx |-> rx, emit |-> <<>>]
  ELSE
    LET started ==
          IF ~rx.receiving
          THEN LET remainingData == Slice(data, 4, Len(data))
               IN  [receiving |-> TRUE,
                    expectedLength |-> ReadUInt32LE(data),
                    receivedChunks |-> IF Len(remainingData) > 0
                                       THEN <<remainingData>> ELSE <<>>,
                    receivedLength |-> Len(remainingData)]
          ELSE [rx EXCEPT !.receivedChunks = Append(@, data),
                          !.receivedLength = @ + Len(data)]
    IN  IF started.receivedLength >= started.expectedLength
        THEN [rx |-> [started EXCEPT !.receiving = FALSE,
                                     !.receivedChunks = <<>>],
              emit |-> << Slice(Concat(started.receivedChunks), 0,
                                started.expectedLength) >>]
        ELSE [rx |-> started, emit |-> <<>>]

\* handleResponseData with the completion test written > instead of >=
handleResponseData_StrictCompletion(rx, data) ==
  IF ~rx.receiving /\ Len(data) < 4
  THEN [rx |-> rx, emit |-> <<>>]
  ELSE
    LET started ==
          IF ~rx.receiving
          THEN LET remainingData == Slice(data, 4, Len(data))
               IN  [receiving |-> TRUE,
                    expectedLength |-> ReadUInt32LE(data),
                    receivedChunks |-> IF Len(remainingData) > 0
                                       THEN <<remainingData>> ELSE <<>>,
                    receivedLength |-> Len(remainingData)]
          ELSE [rx EXCEPT !.receivedChunks = Append(@, data),
                          !.receivedLength = @ + Len(data)]
    IN  IF started.receivedLength > started.expectedLength
        THEN [rx |-> [started EXCEPT !.receiving = FALSE,
                                     !.receivedChunks = <<>>,
                                     !.receivedLength = 0],
              emit |-> << Slice(Concat(started.receivedChunks), 0,
                                started.expectedLength) >>]
        ELSE [rx |-> started, emit |-> <<>>]

\* BLEClient.handleResponseData(data) on reassembly state rx: the new state and
\* the payloads emitted as 'response' (none or one)
handleResponseData(rx, data) ==
  IF ~rx.receiving /\ Len(data) < 4
  THEN [rx |-> rx, emit |-> <<>>]
  ELSE
    LET started ==
          IF ~rx.receiving
          THEN LET remainingData == Slice(data, 4, Len(data))
               IN  [receiving |-> TRUE,
                    expectedLength |-> ReadUInt32LE(data),
                    receivedChunks |-> IF Len(remainingData) > 0
                                       THEN <<remainingData>> ELSE <<>>,
                    receivedLength |-> Len(remainingData)]
          ELSE [rx EXCEPT !.receivedChunks = Append(@, data),
                          !.receivedLength = @ + Len(data)]
    IN  IF started.receivedLength >= started.expectedLength
        THEN [rx |-> [started EXCEPT !.receiving = FALSE,
                                     !.receivedChunks = <<>>,
                                     !.receivedLength = 0],
              emit |-> << Slice(Concat(started.receivedChunks), 0,
                                started.expectedLength) >>]
        ELSE [rx |-> started, emit |-> <<>>]

VARIABLES
  \* ---- SpecCodec ----
  payload,        \* the bytes handed to compressData
  threshold,      \* config.compression.threshold
  skipCompression,\* config.debug.skipCompression
  chunkSize,      \* size of the chunks the frame is split into
  offset,         \* offset of the next chunk of the frame
  rx,             \* receiving, receivedChunks, receivedLength, expectedLength
  responses,      \* payloads emitted as 'response', in order
  decoded,        \* results of decompressData for the emitted responses
  \* ---- SpecSend ----
  txSender,       \* "ble" (BLEClient), "mock" (MockBLEClient) or "peer" (MockIOSService)
  txData,         \* the data handed to sendRequest / sendResponse
  txI,            \* sendChunkedData's loop variable i
  txWire,         \* the buffers written to the transport, in order
  txPc,           \* "ready", "writing" (a write awaits its callback), "lost" (a
                  \* write that did not reach the peer awaits its callback),
                  \* "done", "failed"
  txFrame,        \* number of sendRequest calls made so far on the connection
  \* ---- SpecStream ----
  stFrames,       \* the payloads of the frames the peer sends, in order
  stPos,          \* number of bytes of the stream delivered so far
  stLink,         \* number of disconnections of the link so far
  stBle,          \* BLEClient's reassembly state
  stMock,         \* MockBLEClient's reassembly state
  stOutBle,       \* the 'response' payloads BLEClient emitted
  stOutMock,      \* the 'response' payloads MockBLEClient emitted
  stRejected,     \* 0, or the stream position after the first chunk that was
                  \* rejected as a malformed header
  \* ---- SpecMock: MockBLEClient ----
  mock,           \* connected, connecting, socket (this.socket is set),
                  \* connectionAttempts, reconnectTimer
  sockets,        \* current: the socket this.socket refers to; others: the bag
                  \* of earlier sockets that can still raise an event or whose
                  \* connect promise is pending
  emitted,        \* events: the events the last step of MockBLEClient emitted;
                  \* last: the 'connected' or 'disconnected' emitted last;
                  \* initialized: initialize() was called; failures: attempts
                  \* that failed since the last one that succeeded; timeouts:
                  \* connect timeouts so far; stopped: disconnect() was called
  \* ---- SpecPeer: MockIOSService ----
  connections,    \* the Map connectionId -> receiving, expectedLength,
                  \* receivedLength, chunks
  wires,          \* per connection: toPeer, the bytes its client wrote that
                  \* the peer has not read; frames, the number of frames the
                  \* client wrote; fromPeer, the responses written to its socket
  tasks,          \* the processRequest invocations that have not finished
  accepted,       \* number of connections handleConnection has seen
  \* ---- SpecStop, SpecLoad: BLEProxy as a whole ----
  proxy,          \* stop(): "running" (not called), "closing" (awaiting the
                  \* close of the servers) or "returned"
  load,           \* the number of entries of pendingRequests of each kind
  \* ---- SpecNotify: BLEPeripheralManager sending responses ----
  notify,         \* pendingResponses: the chunks of pendingResponses[central]
                  \* (empty when nil); sent: the chunks updateValue accepted;
                  \* timers: the pending asyncAfter calls of sendNextChunk;
                  \* full: updateValue returned false and
                  \* peripheralManagerIsReady is due; submitted: the data of
                  \* the sendResponse calls, in order
  \* ---- the link, as BLEProxy sees the client ----
  connected,             \* BLEClient.connected
  requestCharacteristic, \* 0 (null) or the number of the connection it belongs to
  epoch,                 \* number of connections established so far
  lastChunk,             \* the chunk written last to the request characteristic
  disconnectedEvents,    \* number of 'disconnected' events emitted
  \* ---- Spec: BLEProxy ----
  handler,          \* per request, its handler: position and local variables
  pendingRequests,  \* the Map requestId -> [kind, timestamp]
  sinks,            \* per request, the status lines written to its res / socket
  peerHas,          \* requests whose whole frame reached the peer, unanswered
  inflight,         \* responses sent by the peer and not yet handled
  now,              \* Date.now()
  sweepDue,         \* when the cleanup interval fires next
  \* ---- SpecLife: BLEClient ----
  connecting,        \* BLEClient.connecting
  peripheral,        \* this.peripheral is set
  peripheralState,   \* peripheral.state
  scanning,          \* noble is scanning
  attempt,           \* per connection attempt, its position and who started it
  attempts,          \* number of connection attempts started
  reconnectTimer,    \* the timer reconnectTimer holds is pending
  pendingReconnects, \* number of pending 3 s reconnect timers
  retryTimers,       \* number of pending 2 s retry timers
  stopPc             \* disconnect(): "idle", "awaiting" or "done"

sendVars == << txSender, txData, txI, txWire, txPc, txFrame >>

streamVars == << stFrames, stPos, stLink, stBle, stMock, stOutBle, stOutMock,
                 stRejected >>

peerVars == << connections, wires, tasks, accepted >>

runVars == << proxy, load, notify >>

mockVars == << mock, sockets, emitted, peerVars, runVars >>

codecVars == << payload, threshold, skipCompression, chunkSize, offset, rx,
                responses, decoded, sendVars, streamVars, mockVars >>

linkVars == << connected, requestCharacteristic, epoch, lastChunk, disconnectedEvents >>

muxVars == << handler, pendingRequests, sinks, peerHas, inflight, now, sweepDue >>

lifeVars == << connecting, peripheral, peripheralState, scanning, attempt, attempts,
               reconnectTimer, pendingReconnects, retryTimers, stopPc >>

vars == << codecVars, linkVars, muxVars, lifeVars >>

(***************************************************************************)
(* The request multiplexer: BLEProxy in proxy.js.  A request id (uuidv4)   *)
(* is the request's number.  A handler is at                               *)
(*   "new"       the browser has not sent the request                      *)
(*   "collect"   proxyHTTPRequest awaits collectRequestData                *)
(*   "compress"  the entry is stored, compressData is awaited              *)
(*   "send"      sendChunkedData awaits the write of the chunk at offset i *)
(*   "done"      the handler returned                                      *)
(* kind is "http" (the entry holds res) or "connect" (it holds socket).    *)
(***************************************************************************)
Reqs == 1..MaxReq

\* config.proxy.timeout
timeout == 30000
\* the period of setupCleanupTimer's setInterval
sweepInterval == 30000
\* the clock advances in steps of one sweep interval
TickMs == sweepInterval

\* lengths of the compressed request handed to sendRequest: a frame of one
\* chunk (4 + 10 bytes) and a frame of two chunks (4 + 30 bytes)
DataLengths == {10, 30}

\* the empty Map
EmptyMap == [r \in {} |-> 0]

\* one status line written to a caller's sink: the status, what wrote it, and
\* the id of the response it was taken from (0 when the proxy made it up)
Answer(code, via, id) == [code |-> code, via |-> via, id |-> id]

\* nothing was written on the connection yet
NoChunk == [req |-> 0, offset |-> 0, length |-> 0]

\* a handler that has not started, and the local variables of one that returned
\* (storedWhileDown records that the entry was stored while disconnected,
\* garbled that the response frame of the request was received and failed
\* decompression or JSON.parse)
NewHandler == [pc |-> "new", kind |-> "http", dataLength |-> 0, i |-> 0,
               characteristic |-> 0, storedWhileDown |-> FALSE,
               garbled |-> FALSE]

Returned(h) == [h EXCEPT !.pc = "done", !.dataLength = 0, !.i = 0,
                         !.characteristic = 0]

\* a field the constructor does not assign (undefined)
Undefined == -1

\* BLEClient's reassembly state after its constructor, which assigns
\* receiving and receivedChunks only
BleIdleRx == [receiving |-> FALSE, receivedChunks |-> <<>>,
              receivedLength |-> Undefined, expectedLength |-> Undefined]

\* nothing is streamed
StreamIdle ==
  /\ stFrames = <<>>
  /\ stPos = 0
  /\ stLink = 0
  /\ stBle = BleIdleRx
  /\ stMock = IdleRx
  /\ stOutBle = <<>>
  /\ stOutMock = <<>>
  /\ stRejected = 0

\* no timer is pending in reconnectTimer
NoTimer == -1

\* a net.Socket that was not created: its state ("none", "connecting", "open",
\* "closing" when its 'close' event is due, "closed"), whether the listeners
\* of setupSocketHandlers and of the connect promise are attached, and
\* whether the connect promise of its attempt is pending
NoSocket == [state |-> "none", listeners |-> FALSE, pending |-> FALSE]

\* number of requests a browser has open at once in one run
MaxLoad == 51

\* number of sendResponse calls of the peripheral in one run
MaxResponses == 2

\* number of connections to the mock peer in one run
MaxConns == 2
\* number of frames a client writes on one connection
MaxPeerFrames == 1

ConnIds == 1..MaxConns

\* MockIOSService after its constructor: no connection
PeerIdle ==
  /\ connections = EmptyMap
  /\ wires = [c \in ConnIds |-> [toPeer |-> <<>>, frames |-> 0, fromPeer |-> <<>>]]
  /\ tasks = {}
  /\ accepted = 0

\* BLEPeripheralManager with one subscribed central and nothing to send
NotifyIdle == [pendingResponses |-> <<>>, sent |-> <<>>, timers |-> 0,
               full |-> FALSE, submitted |-> <<>>]

\* BLEProxy after its constructor: stop() was not called, no entry is pending;
\* BLEPeripheralManager as above
RunIdle ==
  /\ proxy = "running"
  /\ load = [http |-> 0, connect |-> 0]
  /\ notify = NotifyIdle

\* MockBLEClient after its constructor
MockIdle ==
  /\ mock = [connected |-> FALSE, connecting |-> FALSE, socket |-> FALSE,
             connectionAttempts |-> 0, reconnectTimer |-> NoTimer]
  /\ sockets = [current |-> NoSocket, others |-> EmptyBag]
  /\ emitted = [events |-> <<>>, last |-> "none", initialized |-> FALSE,
                failures |-> 0, timeouts |-> 0, stopped |-> FALSE]

\* no sender is at work
SendIdle ==
  /\ txSender = "ble"
  /\ txData = <<>>
  /\ txI = 0
  /\ txWire = <<>>
  /\ txPc = "ready"
  /\ txFrame = 1

LinkInit ==
  /\ connected = FALSE
  /\ requestCharacteristic = 0
  /\ epoch = 0
  /\ lastChunk = NoChunk
  /\ disconnectedEvents = 0

LifeInit ==
  /\ connecting = FALSE
  /\ peripheral = FALSE
  /\ peripheralState = "disconnected"
  /\ scanning = FALSE
  /\ attempt = [a \in 1..MaxAttempts |->
                  [pc |-> "none", origin |-> "device", loop |-> "none",
                   discoveryAttempts |-> 0, charDiscoveryAttempts |-> 0,
                   outcome |-> "none", connectedEmitted |-> 0]]
  /\ attempts = 0
  /\ reconnectTimer = FALSE
  /\ pendingReconnects = 0
  /\ retryTimers = 0
  /\ stopPc = "idle"

MuxInit ==
  /\ handler = [r \in Reqs |-> NewHandler]
  /\ pendingRequests = EmptyMap
  /\ sinks = [r \in Reqs |-> <<>>]
  /\ peerHas = {}
  /\ inflight = {}
  /\ now = 0
  /\ sweepDue = sweepInterval

\* pendingRequests.set(requestId, {res | socket, timestamp: Date.now()})
MapSet(table, r, entry) ==
  [x \in DOMAIN table \cup {r} |-> IF x = r THEN entry ELSE table[x]]

\* pendingRequests.delete(requestId)
MapDelete(table, r) == [x \in DOMAIN table \ {r} |-> table[x]]

\* clearAllPendingRequests with the socket branch left out
clearAllPendingRequests_ResOnly(table, snk) ==
  [r \in Reqs |->
     IF r \in DOMAIN table /\ table[r].kind = "http" /\ snk[r] = <<>>
     THEN Append(snk[r], Answer(503, "disconnect", 0))
     ELSE snk[r]]

\* clearAllPendingRequests(reason): what the loop writes to the sinks of the
\* entries of table (res: only when no headers were sent; socket: always)
clearAllPendingRequests(table, snk) ==
  [r \in Reqs |->
     IF r \notin DOMAIN table THEN snk[r]
     ELSE IF table[r].kind = "http" /\ snk[r] = <<>>
          THEN Append(snk[r], Answer(503, "disconnect", 0))
     ELSE IF table[r].kind = "connect"
          THEN Append(snk[r], Answer(503, "disconnect", 0))
     ELSE snk[r]]

\* the expiry test of cleanupTimedOutRequests written >= instead of >
TimedOut_AtTimeout(table, t) == {r \in DOMAIN table : t - table[r].timestamp >= timeout}

\* the entries cleanupTimedOutRequests finds expired at time t
TimedOut(table, t) == {r \in DOMAIN table : t - table[r].timestamp > timeout}

\* cleanupTimedOutRequests deleting the expired entries without answering them
cleanupTimedOutRequests_Silent(table, snk, t) == snk

\* cleanupTimedOutRequests: what the loop writes to the sinks
cleanupTimedOutRequests(table, snk, t) ==
  [r \in Reqs |->
     IF r \notin TimedOut(table, t) THEN snk[r]
     ELSE IF table[r].kind = "http" /\ snk[r] = <<>>
          THEN Append(snk[r], Answer(408, "sweep", 0))
     ELSE IF table[r].kind = "connect"
          THEN Append(snk[r], Answer(408, "sweep", 0))
     ELSE snk[r]]

\* a catch block that only logs and writes nothing to the sink
catchError_Silent(knd, snk) == snk

\* the catch block of proxyHTTPRequest / proxyHTTPSConnect: what it writes to
\* the sink of the request (res: only when no headers were sent; socket: always)
catchError(knd, snk) ==
  IF knd = "http"
  THEN IF snk = <<>> THEN Append(snk, Answer(500, "error", 0)) ELSE snk
  ELSE Append(snk, Answer(500, "error", 0))

\* isConnected() answering true whatever the connection state
isConnected_Always == TRUE

\* BLEClient.isConnected()
isConnected == connected

\* requests are numbered in the order the browser sends them
Arrives(r) ==
  /\ handler[r].pc = "new"
  /\ \A q \in Reqs : q < r => handler[q].pc # "new"

\* handleHTTPRequest(req, res): 503 when the client is not connected, else
\* proxyHTTPRequest starts and awaits collectRequestData
handleHTTPRequest(r) ==
  /\ Arrives(r)
  /\ IF ~isConnected
     THEN /\ sinks' = [sinks EXCEPT ![r] = Append(@, Answer(503, "notConnected", 0))]
          /\ handler' = [handler EXCEPT ![r].pc = "done", ![r].kind = "http"]
     ELSE /\ handler' = [handler EXCEPT ![r].pc = "collect", ![r].kind = "http"]
          /\ UNCHANGED sinks
  /\ UNCHANGED << pendingRequests, peerHas, inflight, now, sweepDue >>
  /\ UNCHANGED << linkVars, codecVars, lifeVars >>

\* proxyHTTPRequest after collectRequestData resolved: the entry is stored
\* and compressData awaited
proxyHTTPRequest_Store(r) ==
  /\ handler[r].pc = "collect"
  /\ pendingRequests' = MapSet(pendingRequests, r, [kind |-> "http", timestamp |-> now])
  /\ handler' = [handler EXCEPT ![r].pc = "compress", ![r].storedWhileDown = ~connected]
  /\ UNCHANGED << sinks, peerHas, inflight, now, sweepDue >>
  /\ UNCHANGED << linkVars, codecVars, lifeVars >>

\* proxyHTTPRequest when collectRequestData rejects (request stream error or
\* its 30 s timer): the catch block
proxyHTTPRequest_CollectFailed(r) ==
  /\ handler[r].pc = "collect"
  /\ sinks' = [sinks EXCEPT ![r] = catchError("http", @)]
  /\ pendingRequests' = MapDelete(pendingRequests, r)
  /\ handler' = [handler EXCEPT ![r] = Returned(@)]
  /\ UNCHANGED << peerHas, inflight, now, sweepDue >>
  /\ UNCHANGED << linkVars, codecVars, lifeVars >>

\* handleHTTPSConnect(req, clientSocket, head): 503 when the client is not
\* connected, else proxyHTTPSConnect stores the entry and awaits compressData
handleHTTPSConnect(r) ==
  /\ Arrives(r)
  /\ IF ~isConnected
     THEN /\ sinks' = [sinks EXCEPT ![r] = Append(@, Answer(503, "notConnected", 0))]
          /\ handler' = [handler EXCEPT ![r].pc = "done", ![r].kind = "connect"]
          /\ UNCHANGED pendingRequests
     ELSE /\ pendingRequests' =
               MapSet(pendingRequests, r, [kind |-> "connect", timestamp |-> now])
          /\ handler' = [handler EXCEPT ![r].pc = "compress", ![r].kind = "connect"]
          /\ UNCHANGED sinks
  /\ UNCHANGED << peerHas, inflight, now, sweepDue >>
  /\ UNCHANGED << linkVars, codecVars, lifeVars >>

\* sendRequest without its connection check
sendRequestRejects_Never == FALSE

\* BLEClient.sendRequest throws 'Not connected to BLE device'
sendRequestRejects == ~connected \/ requestCharacteristic = 0

\* the chunk sendChunkedData writes at offset i of the frame of request r:
\* fullData.slice(i, i + maxChunkSize) of a frame of 4 + len bytes
Chunk(r, i, len) ==
  [req |-> r, offset |-> i, length |-> Min(i + maxChunkSize, 4 + len) - i]

\* proxyHTTPRequest / proxyHTTPSConnect after compressData resolved:
\* bleClient.sendRequest(compressed) either throws, which runs the catch block,
\* or enters sendChunkedData and issues the write of the first chunk
proxy_sendRequest(r) ==
  /\ handler[r].pc = "compress"
  /\ IF sendRequestRejects
     THEN /\ sinks' = [sinks EXCEPT ![r] = catchError(handler[r].kind, @)]
          /\ pendingRequests' = MapDelete(pendingRequests, r)
          /\ handler' = [handler EXCEPT ![r] = Returned(@)]
          /\ UNCHANGED lastChunk
     ELSE \E len \in DataLengths :
          /\ handler' = [handler EXCEPT ![r].pc = "send",
                                        ![r].dataLength = len,
                                        ![r].i = 0,
                                        ![r].characteristic = requestCharacteristic]
          /\ lastChunk' = Chunk(r, 0, len)
          /\ UNCHANGED << sinks, pendingRequests >>
  /\ UNCHANGED << peerHas, inflight, now, sweepDue >>
  /\ UNCHANGED << connected, requestCharacteristic, epoch, disconnectedEvents >>
  /\ UNCHANGED << codecVars, lifeVars >>

\* the connection a characteristic belongs to is still up
LinkAlive(c) == connected /\ c = epoch

\* sendChunkedData: the write of the chunk at offset i completed; after the
\* 10 ms sleep the next chunk is written, or the loop ends and sendRequest
\* resolves
sendChunkedData_Next(r) ==
  /\ handler[r].pc = "send"
  /\ LinkAlive(handler[r].characteristic)
  /\ LET i == handler[r].i + maxChunkSize
     IN  IF i < 4 + handler[r].dataLength
         THEN /\ handler' = [handler EXCEPT ![r].i = i]
              /\ lastChunk' = Chunk(r, i, handler[r].dataLength)
              /\ UNCHANGED peerHas
         ELSE /\ handler' = [handler EXCEPT ![r] = Returned(@)]
              /\ peerHas' = peerHas \cup {r}
              /\ UNCHANGED lastChunk
  /\ UNCHANGED << pendingRequests, sinks, inflight, now, sweepDue >>
  /\ UNCHANGED << connected, requestCharacteristic, epoch, disconnectedEvents >>
  /\ UNCHANGED << codecVars, lifeVars >>

\* sendChunkedData: the write of a chunk failed (rejected, or no callback
\* within promisify's timeout); sendRequest rethrows and the catch block of
\* the proxy's handler runs
sendChunkedData_WriteFailed(r) ==
  /\ handler[r].pc = "send"
  /\ sinks' = [sinks EXCEPT ![r] = catchError(handler[r].kind, @)]
  /\ pendingRequests' = MapDelete(pendingRequests, r)
  /\ handler' = [handler EXCEPT ![r] = Returned(@)]
  /\ UNCHANGED << peerHas, inflight, now, sweepDue >>
  /\ UNCHANGED << linkVars, codecVars, lifeVars >>

\* processRequest answering with the id of the request received last
responseId_Latest(r) == CHOOSE q \in peerHas : \A p \in peerHas : p <= q

\* processRequest: response.id = request.id
responseId(r) == r

\* the peer, which holds the whole frame of request r received on the current
\* connection, sends its response (mock-ios processRequest: the response
\* carries the request's id, and isConnect for a CONNECT request); decodes
\* tells whether the frame the client reassembles from it gunzips and parses
PeerRespond(r) ==
  /\ r \in peerHas
  /\ connected
  /\ \E ok \in BOOLEAN, dec \in BOOLEAN :
       /\ handler[r].kind = "http" => ok
       /\ inflight' = inflight \cup
            {[id |-> responseId(r), isConnect |-> (handler[r].kind = "connect"),
              success |-> ok, decodes |-> dec]}
  /\ peerHas' = peerHas \ {r}
  /\ UNCHANGED << handler, pendingRequests, sinks, now, sweepDue >>
  /\ UNCHANGED << linkVars, codecVars, lifeVars >>

\* handleBLEResponse resolving some pending entry when response.id is unknown
responseKey_Fallback(table, id) ==
  IF id \in DOMAIN table \/ DOMAIN table = {} THEN id
  ELSE CHOOSE r \in DOMAIN table : TRUE

\* handleBLEResponse looking up the oldest entry instead of response.id
responseKey_Oldest(table, id) ==
  IF DOMAIN table = {} THEN id
  ELSE CHOOSE r \in DOMAIN table : \A q \in DOMAIN table : r <= q

\* the key handleBLEResponse looks up and deletes: response.id
responseKey(table, id) == id

\* handleHTTPResponse / handleHTTPSConnectResponse: the status line the
\* response puts on the sink of an entry, <<>> when the handler throws (a
\* res whose headers were sent, or an entry without the res / socket the
\* response type needs)
responseWrites(entry, snk, m) ==
  IF m.isConnect
  THEN IF entry.kind = "connect"
       THEN << Answer(IF m.success THEN 200 ELSE 502, "response", m.id) >>
       ELSE <<>>
  ELSE IF entry.kind = "http" /\ snk = <<>>
       THEN << Answer(200, "response", m.id) >>
       ELSE <<>>

\* the response handler threw before pendingRequests.delete
responseThrows(entry, m) ==
  \/ m.isConnect /\ entry.kind # "connect"
  \/ ~m.isConnect /\ entry.kind # "http"

\* handleBLEResponse treating every frame as decodable
responseDecodes_Always(m) == TRUE

\* decompressData and JSON.parse of handleBLEResponse succeed on the frame
responseDecodes(m) == m.decodes

\* handleBLEResponse(compressedData) for a frame the client emitted: when
\* decompressData or JSON.parse throws, the catch block logs and nothing else
\* happens; else the entry of response.id is looked up, answered and deleted
handleBLEResponse(m) ==
  /\ m \in inflight
  /\ inflight' = inflight \ {m}
  /\ IF ~responseDecodes(m)
     THEN /\ handler' = [handler EXCEPT ![m.id].garbled = TRUE]
          /\ UNCHANGED << sinks, pendingRequests >>
     ELSE /\ LET key == responseKey(pendingRequests, m.id)
             IN  IF key \notin DOMAIN pendingRequests
                 THEN UNCHANGED << sinks, pendingRequests >>
                 ELSE /\ sinks' = [sinks EXCEPT ![key] =
                                     @ \o responseWrites(pendingRequests[key], @, m)]
                      /\ pendingRequests' =
                           IF responseThrows(pendingRequests[key], m)
                           THEN pendingRequests
                           ELSE MapDelete(pendingRequests, key)
          /\ UNCHANGED handler
  /\ UNCHANGED << peerHas, now, sweepDue >>
  /\ UNCHANGED << linkVars, codecVars, lifeVars >>

\* connectToPeripheral succeeds: connected is set, the characteristics are
\* those of the new connection, 'connected' is emitted
LinkUp ==
  /\ ~connected
  /\ epoch < MaxLinks
  /\ connected' = TRUE
  /\ epoch' = epoch + 1
  /\ requestCharacteristic' = epoch + 1
  /\ lastChunk' = NoChunk
  /\ UNCHANGED << disconnectedEvents, muxVars, codecVars, lifeVars >>

\* the peripheral's 'disconnect' event: handleDisconnection clears the
\* connection state and emits 'disconnected', whose listener in BLEProxy
\* runs clearAllPendingRequests; what the peer held of the connection is gone
LinkDown ==
  /\ connected
  /\ connected' = FALSE
  /\ requestCharacteristic' = 0
  /\ disconnectedEvents' = disconnectedEvents + 1
  /\ sinks' = clearAllPendingRequests(pendingRequests, sinks)
  /\ pendingRequests' = EmptyMap
  /\ peerHas' = {}
  /\ UNCHANGED << epoch, lastChunk >>
  /\ UNCHANGED << handler, inflight, now, sweepDue >>
  /\ UNCHANGED << codecVars, lifeVars >>

\* the cleanup interval fires: cleanupTimedOutRequests
Sweep ==
  /\ now >= sweepDue
  /\ sinks' = cleanupTimedOutRequests(pendingRequests, sinks, now)
  /\ pendingRequests' =
       [r \in DOMAIN pendingRequests \ TimedOut(pendingRequests, now) |->
          pendingRequests[r]]
  /\ sweepDue' = sweepDue + sweepInterval
  /\ UNCHANGED << handler, peerHas, inflight, now >>
  /\ UNCHANGED << linkVars, codecVars, lifeVars >>

\* time passes; a due sweep runs before the clock moves on
Tick ==
  /\ now < sweepDue
  /\ now + TickMs <= MaxTicks * TickMs
  /\ now' = now + TickMs
  /\ UNCHANGED << handler, pendingRequests, sinks, peerHas, inflight, sweepDue >>
  /\ UNCHANGED << linkVars, codecVars, lifeVars >>

Init ==
  /\ LinkInit
  /\ MuxInit
  /\ LifeInit
  /\ SendIdle
  /\ StreamIdle
  /\ MockIdle
  /\ PeerIdle
  /\ RunIdle
  /\ payload = <<>>
  /\ threshold = 0
  /\ skipCompression = FALSE
  /\ chunkSize = 1
  /\ offset = 0
  /\ rx = IdleRx
  /\ responses = <<>>
  /\ decoded = <<>>

Next ==
  \/ \E r \in Reqs : handleHTTPRequest(r)
  \/ \E r \in Reqs : proxyHTTPRequest_Store(r)
  \/ \E r \in Reqs : proxyHTTPRequest_CollectFailed(r)
  \/ \E r \in Reqs : handleHTTPSConnect(r)
  \/ \E r \in Reqs : proxy_sendRequest(r)
  \/ \E r \in Reqs : sendChunkedData_Next(r)
  \/ \E r \in Reqs : sendChunkedData_WriteFailed(r)
  \/ \E r \in Reqs : PeerRespond(r)
  \/ \E m \in inflight : handleBLEResponse(m)
  \/ LinkUp
  \/ LinkDown
  \/ Sweep
  \/ Tick

Spec == Init /\ [][Next]_vars

(***************************************************************************)
(* SpecCodec: one payload is compressed, framed, split into chunks of      *)
(* chunkSize bytes, fed chunk by chunk to handleResponseData, and every    *)
(* emitted response is decompressed as handleBLEResponse does.             *)
(***************************************************************************)
\* the payload of the frame on the wire
wirePayload == compressData(payload, threshold, skipCompression)

\* the frame on the wire
frame == fullData(wirePayload)

CodecInit ==
  /\ payload \in SeqsUpTo(PayloadBytes, MaxPayloadLen)
  /\ threshold \in 0..MaxThreshold
  /\ skipCompression \in BOOLEAN
  /\ chunkSize \in 1..(4 + MaxPayloadLen + 3)
  /\ chunkSize <= Len(frame)
  /\ offset = 0
  /\ rx = IdleRx
  /\ responses = <<>>
  /\ decoded = <<>>
  /\ LinkInit
  /\ MuxInit
  /\ LifeInit
  /\ SendIdle
  /\ StreamIdle
  /\ MockIdle
  /\ PeerIdle
  /\ RunIdle

\* the transport delivers the next chunk of the frame: the 'data' handler
\* calls handleResponseData, and handleBLEResponse decompresses what it emits
FeedChunk ==
  /\ offset < Len(frame)
  /\ LET chunk == Slice(frame, offset, offset + chunkSize)
         r     == handleResponseData(rx, chunk)
     IN  /\ rx' = r.rx
         /\ responses' = responses \o r.emit
         /\ decoded' = decoded \o [i \in 1..Len(r.emit) |-> decompressData(r.emit[i])]
  /\ offset' = offset + chunkSize
  /\ UNCHANGED << payload, threshold, skipCompression, chunkSize, sendVars,
                  streamVars, mockVars >>
  /\ UNCHANGED << linkVars, muxVars, lifeVars >>

CodecNext == FeedChunk

SpecCodec == CodecInit /\ [][CodecNext]_vars

\* every chunk of the frame has been fed
FrameFed == offset >= Len(frame)

(***************************************************************************)
(* Claims on the codec.                                                    *)
(***************************************************************************)
\* the payload was put on the wire raw (compression skipped)
SentRaw == Len(payload) < threshold \/ skipCompression

\* C6 as stated: split into chunks of any fixed size from 1 byte up to the
\* whole frame and fed one chunk at a time, the frame yields exactly one
\* 'response' whose payload is the frame's payload.
C6_AnyChunkSizeYieldsPayload ==
  FrameFed => responses = << wirePayload >>

\* C6 amended: with a chunk size of 4 bytes up to the whole frame no response
\* is emitted before the last chunk and exactly one, the frame's payload,
\* once the last chunk is fed; with a chunk size of 1 to 3 bytes every chunk
\* is dropped as an invalid header and no response is ever emitted.
C6_ChunkSizeFrom4YieldsPayload ==
  /\ chunkSize >= 4 => responses = IF FrameFed THEN << wirePayload >> ELSE <<>>
  /\ chunkSize < 4 => responses = <<>> /\ rx = IdleRx

\* C6 witness: a non-empty payload split into several chunks of at least 4
\* bytes has been reassembled.
C6_Witness ==
  /\ FrameFed
  /\ chunkSize >= 4
  /\ chunkSize < Len(frame)
  /\ Len(wirePayload) > 0
  /\ responses = << wirePayload >>

\* C7: encoding a payload (compression step, length header) and decoding the
\* frame (reassembly, decompression step) yields the payload, on the
\* compressed and on the uncompressed path.
C7_RoundTrip ==
  (FrameFed /\ chunkSize >= 4) => decoded = << [ok |-> TRUE, data |-> payload] >>

\* C8: a frame whose payload was sent raw is still decoded by the receiver:
\* failed decompression falls back to the raw bytes.
C8_RawFrameDecodedAsIs ==
  (FrameFed /\ chunkSize >= 4 /\ SentRaw)
    => /\ Len(decoded) = 1
       /\ decoded[1].ok
       /\ decoded[1].data = wirePayload

(***************************************************************************)
(* Claims on the request multiplexer.                                      *)
(***************************************************************************)
\* the last status line written to the sink of request r
LastAnswer(snk, r) == snk[r][Len(snk[r])]

\* C1: when the client emits 'disconnected' while N requests are pending,
\* every one of the N is answered 503 (res or socket), nothing else is
\* written, and the pending table is empty when the handler returns.
C1_DisconnectAnswersAllWith503 ==
  [][disconnectedEvents' # disconnectedEvents =>
       /\ pendingRequests' = EmptyMap
       /\ \A r \in DOMAIN pendingRequests :
            sinks'[r] = Append(sinks[r], Answer(503, "disconnect", 0))
       /\ \A r \in Reqs \ DOMAIN pendingRequests : sinks'[r] = sinks[r]]_vars

\* C1 witness: an HTTP request and a CONNECT request were pending together
\* and both were answered 503 by one disconnect.
C1_Witness ==
  /\ disconnectedEvents = 1
  /\ pendingRequests = EmptyMap
  /\ \A r \in Reqs : sinks[r] = << Answer(503, "disconnect", 0) >>
  /\ \E a, b \in Reqs : handler[a].kind = "http" /\ handler[b].kind = "connect"

\* C2: responses are matched to requests by id only: handling the (decodable)
\* response of request B writes B's response to B's sink and removes B's entry,
\* whatever else is pending and in whatever order the responses come; every
\* other sink and entry is left alone, and no sink receives a response that
\* carries another request's id.
C2_ResponsesMatchedById ==
  [][/\ \A m \in inflight \ inflight' :
          /\ \A q \in Reqs \ {m.id} : sinks'[q] = sinks[q]
          /\ \A q \in DOMAIN pendingRequests \ {m.id} :
               q \in DOMAIN pendingRequests' /\ pendingRequests'[q] = pendingRequests[q]
          /\ (m.decodes /\ m.id \in DOMAIN pendingRequests) =>
               /\ m.id \notin DOMAIN pendingRequests'
               /\ Len(sinks'[m.id]) = Len(sinks[m.id]) + 1
               /\ LastAnswer(sinks', m.id).via = "response"
               /\ LastAnswer(sinks', m.id).id = m.id
     /\ \A r \in Reqs :
          (Len(sinks'[r]) > Len(sinks[r]) /\ LastAnswer(sinks', r).via = "response")
            => LastAnswer(sinks', r).id = r]_vars

\* C2 witness: of two requests the later one was answered by its response
\* while the earlier one is still pending and unanswered.
C2_Witness ==
  /\ 1 \in DOMAIN pendingRequests
  /\ sinks[1] = <<>>
  /\ 2 \notin DOMAIN pendingRequests
  /\ Len(sinks[2]) = 1
  /\ sinks[2][1].via = "response"
  /\ sinks[2][1].id = 2

\* C3: every request receives exactly one outcome, its entry is gone once
\* the outcome is delivered, and no request, HTTP or CONNECT, is answered
\* twice.
C3_ExactlyOneOutcome ==
  \A r \in Reqs :
    /\ Len(sinks[r]) <= 1
    /\ r \in DOMAIN pendingRequests => sinks[r] = <<>>

\* C4: chunks of two frames are never interleaved on the wire: a chunk that
\* is not the first of its frame directly follows a chunk of the same frame.
C4_NoInterleavedChunks ==
  [][(lastChunk' # lastChunk /\ lastChunk'.offset > 0)
       => lastChunk'.req = lastChunk.req]_vars

\* C5: a submission that interleaves with a disconnect is never silently
\* dropped: an entry in the table either belongs to a handler that has yet
\* to call sendRequest (which rejects when disconnected) or was sent on the
\* connection that is up now, so that the next disconnect cancels it; and a
\* request that passed the store without an entry in the table has an
\* outcome.
C5_NoSilentDrop ==
  \A r \in Reqs :
    /\ r \in DOMAIN pendingRequests =>
         \/ handler[r].pc = "compress"
         \/ /\ connected
            /\ handler[r].pc \in {"send", "done"}
            /\ handler[r].pc = "send" => handler[r].characteristic = epoch
    /\ (handler[r].pc \in {"compress", "send", "done"} /\ r \notin DOMAIN pendingRequests)
         => sinks[r] # <<>>

\* C5 witness: a request accepted while connected stored its entry after the
\* disconnect; sendRequest rejected it and it was answered 500.
C5_Witness ==
  \E r \in Reqs :
    /\ handler[r].storedWhileDown
    /\ handler[r].pc = "done"
    /\ r \notin DOMAIN pendingRequests
    /\ sinks[r] = << Answer(500, "error", 0) >>

(***************************************************************************)
(* SpecLife: the connection lifecycle of BLEClient in ble-client.js, with  *)
(* one peripheral (noble hands out the same peripheral object on every     *)
(* discovery, so every connectToPeripheral adds a 'disconnect' listener to *)
(* it).  A connection attempt is at                                        *)
(*   "none"     not started                                                *)
(*   "reset"    connectToDevice awaits resetWindowsBLEStack                *)
(*   "connect"  connectToPeripheral awaits peripheral.connect              *)
(*   "discover" a try of the discovery loop named by loop ("services" or   *)
(*              "chars") awaits discoverServices / discoverCharacteristics *)
(*   "retry"    the catch block of that loop sleeps 1 s before the retry   *)
(*   "unplug"   the catch block, before the last try, awaits               *)
(*              peripheral.disconnect and forceNobleReset                  *)
(*   "setup"    connectToPeripheral is between the loops (loop is          *)
(*              "services") or maps and subscribes the characteristics     *)
(*              (loop is "chars")                                          *)
(*   "done"     connectToPeripheral returned or threw                      *)
(* and was started by connectToDevice ("device") or by                     *)
(* handlePeripheralDiscovery ("discovery").  discoveryAttempts and         *)
(* charDiscoveryAttempts are the loops' counters, kept while the loop runs *)
(* (they are locals, dead once their loop is left); outcome records how    *)
(* the attempt ended ("connected", "failed", or "exhausted" when the last  *)
(* try of a discovery loop failed) and connectedEmitted how many           *)
(* 'connected' events it emitted.                                          *)
(***************************************************************************)
Attempts == 1..MaxAttempts

\* maxDiscoveryAttempts and maxCharDiscoveryAttempts of connectToPeripheral
maxDiscoveryAttempts == 3

maxCharDiscoveryAttempts == 3

\* the positions at which connectToPeripheral is running
Running == {"connect", "discover", "retry", "unplug", "setup"}

\* the attempts whose connectToPeripheral is running
InProgress == {a \in Attempts : attempt[a].pc \in Running}

\* the 'disconnect' listeners connectToPeripheral registered on the peripheral
listeners == Cardinality({a \in Attempts : attempt[a].pc \in Running \cup {"done"}})

\* startScanning(): blocked while connected or connecting
startScanning(scan) == IF connected \/ connecting THEN scan ELSE TRUE

\* connectToDevice(deviceId) up to its first await: it throws when already
\* connecting or connected, else resetWindowsBLEStack stops the scan and waits
connectToDevice(a) ==
  /\ stopPc = "idle"
  /\ a = attempts + 1
  /\ ~(connecting \/ connected)
  /\ attempt' = [attempt EXCEPT ![a].pc = "reset", ![a].origin = "device"]
  /\ attempts' = a
  /\ scanning' = FALSE
  /\ UNCHANGED << connecting, peripheral, peripheralState, reconnectTimer,
                  pendingReconnects, retryTimers, stopPc >>
  /\ UNCHANGED << linkVars, muxVars, codecVars >>

\* connectToDevice after resetWindowsBLEStack: connecting is set and
\* connectToPeripheral starts (this.peripheral, the listeners, then it awaits
\* peripheral.connect)
connectToDevice_Connect(a) ==
  /\ attempt[a].pc = "reset"
  /\ connecting' = TRUE
  /\ peripheral' = TRUE
  /\ attempt' = [attempt EXCEPT ![a].pc = "connect"]
  /\ UNCHANGED << peripheralState, scanning, attempts, reconnectTimer,
                  pendingReconnects, retryTimers, stopPc >>
  /\ UNCHANGED << linkVars, muxVars, codecVars >>

\* noble 'discover' for the proxy device while scanning:
\* handlePeripheralDiscovery skips it when connecting or connected, else stops
\* the scan, sets connecting and starts connectToPeripheral
handlePeripheralDiscovery(a) ==
  /\ scanning
  /\ a = attempts + 1
  /\ ~(connecting \/ connected)
  /\ scanning' = FALSE
  /\ connecting' = TRUE
  /\ peripheral' = TRUE
  /\ attempt' = [attempt EXCEPT ![a].pc = "connect", ![a].origin = "discovery"]
  /\ attempts' = a
  /\ UNCHANGED << peripheralState, reconnectTimer, pendingReconnects,
                  retryTimers, stopPc >>
  /\ UNCHANGED << linkVars, muxVars, codecVars >>

\* peripheral.connect called back without error: after the 1.5 s pause the
\* service discovery loop starts its first try
peripheralConnected(a) ==
  /\ attempt[a].pc = "connect"
  /\ peripheralState \in {"disconnected", "connected"}
  /\ peripheralState' = "connected"
  /\ attempt' = [attempt EXCEPT ![a].pc = "discover", ![a].loop = "services",
                                ![a].discoveryAttempts = 1]
  /\ UNCHANGED << connecting, peripheral, scanning, attempts, reconnectTimer,
                  pendingReconnects, retryTimers, stopPc >>
  /\ UNCHANGED << linkVars, muxVars, codecVars >>

\* the counter of the discovery loop the attempt is in
loopAttempts(at) ==
  IF at.loop = "services" THEN at.discoveryAttempts ELSE at.charDiscoveryAttempts

\* the bound of the discovery loop the attempt is in
maxLoopAttempts(at) ==
  IF at.loop = "services" THEN maxDiscoveryAttempts ELSE maxCharDiscoveryAttempts

\* the attempt with the counter of its loop incremented (the top of the loop)
nextTry(at) ==
  IF at.loop = "services"
  THEN [at EXCEPT !.pc = "discover", !.discoveryAttempts = @ + 1]
  ELSE [at EXCEPT !.pc = "discover", !.charDiscoveryAttempts = @ + 1]

retryAllowed_Inclusive(n, max) == n <= max

\* the test of the loops' catch blocks: another try follows
retryAllowed(n, max) == n < max

\* the attempt after connectToPeripheral ended: its locals are gone
ended(at, how) ==
  [at EXCEPT !.pc = "done", !.loop = "none", !.discoveryAttempts = 0,
             !.charDiscoveryAttempts = 0, !.outcome = how]

\* the catch block of connectToPeripheral clears connecting and the
\* characteristics and disconnects this.peripheral, and then the caller's
\* catch block runs (connectToDevice: connecting = false;
\* handlePeripheralDiscovery: connecting = false and the 2 s timer that
\* restarts the scan)
connectToPeripheral_Catch(a, how) ==
  /\ connecting' = FALSE
  /\ requestCharacteristic' = 0
  /\ peripheralState' = IF peripheral /\ peripheralState = "connected"
                        THEN "disconnecting" ELSE peripheralState
  /\ retryTimers' = IF attempt[a].origin = "discovery"
                    THEN retryTimers + 1 ELSE retryTimers
  /\ attempt' = [attempt EXCEPT ![a] = ended(@, how)]
  /\ UNCHANGED << peripheral, scanning, attempts, reconnectTimer,
                  pendingReconnects, stopPc >>
  /\ UNCHANGED << connected, epoch, lastChunk, disconnectedEvents >>
  /\ UNCHANGED << muxVars, codecVars >>

\* a try of a discovery loop succeeds: the loop is left
discover_Ok(a) ==
  /\ attempt[a].pc = "discover"
  /\ peripheralState = "connected"
  /\ attempt' = [attempt EXCEPT ![a].pc = "setup", ![a].discoveryAttempts = 0,
                                ![a].charDiscoveryAttempts = 0]
  /\ UNCHANGED << connecting, peripheral, peripheralState, scanning, attempts,
                  reconnectTimer, pendingReconnects, retryTimers, stopPc >>
  /\ UNCHANGED << linkVars, muxVars, codecVars >>

\* a try of a discovery loop fails (the state check throws, the discovery
\* rejects or times out): the catch block of the loop sleeps before another
\* try, or throws after the last one
discover_Failed(a) ==
  /\ attempt[a].pc = "discover"
  /\ IF retryAllowed(loopAttempts(attempt[a]), maxLoopAttempts(attempt[a]))
     THEN /\ attempt' = [attempt EXCEPT ![a].pc = "retry"]
          /\ UNCHANGED << connecting, peripheral, peripheralState, scanning,
                          attempts, reconnectTimer, pendingReconnects,
                          retryTimers, stopPc >>
          /\ UNCHANGED << linkVars, muxVars, codecVars >>
     ELSE connectToPeripheral_Catch(a, "exhausted")

\* the 1 s sleep of the loop's catch block is over: it throws when the
\* peripheral is no longer connected; before the last try it disconnects the
\* peripheral and awaits that; else the loop goes round (leaving it without a
\* result when the counter is at its bound, which throws further down)
retry_Next(a) ==
  /\ attempt[a].pc = "retry"
  /\ IF peripheralState # "connected"
     THEN connectToPeripheral_Catch(a, "failed")
     ELSE IF loopAttempts(attempt[a]) = maxLoopAttempts(attempt[a]) - 1
     THEN /\ peripheralState' = "disconnecting"
          /\ attempt' = [attempt EXCEPT ![a].pc = "unplug"]
          /\ UNCHANGED << connecting, peripheral, scanning, attempts,
                          reconnectTimer, pendingReconnects, retryTimers,
                          stopPc >>
          /\ UNCHANGED << connected, requestCharacteristic, epoch, lastChunk,
                          disconnectedEvents >>
          /\ UNCHANGED << muxVars, codecVars >>
     ELSE IF loopAttempts(attempt[a]) < maxLoopAttempts(attempt[a])
     THEN /\ attempt' = [attempt EXCEPT ![a] = nextTry(@)]
          /\ UNCHANGED << connecting, peripheral, peripheralState, scanning,
                          attempts, reconnectTimer, pendingReconnects,
                          retryTimers, stopPc >>
          /\ UNCHANGED << linkVars, muxVars, codecVars >>
     ELSE connectToPeripheral_Catch(a, "failed")

\* peripheral.disconnect called back or timed out and forceNobleReset threw
\* (it reads this.noble, which BLEClient never sets): the inner catch block
\* swallows the error and the loop starts its last try
unplug_Done(a) ==
  /\ attempt[a].pc = "unplug"
  /\ attempt' = [attempt EXCEPT ![a] = nextTry(@)]
  /\ UNCHANGED << connecting, peripheral, peripheralState, scanning, attempts,
                  reconnectTimer, pendingReconnects, retryTimers, stopPc >>
  /\ UNCHANGED << linkVars, muxVars, codecVars >>

\* the proxy service was found among the discovered services: after the
\* 500 ms pause and the state check the characteristic discovery loop starts
\* its first try
discoverCharacteristics(a) ==
  /\ attempt[a].pc = "setup"
  /\ attempt[a].loop = "services"
  /\ peripheralState = "connected"
  /\ attempt' = [attempt EXCEPT ![a].pc = "discover", ![a].loop = "chars",
                                ![a].charDiscoveryAttempts = 1]
  /\ UNCHANGED << connecting, peripheral, peripheralState, scanning, attempts,
                  reconnectTimer, pendingReconnects, retryTimers, stopPc >>
  /\ UNCHANGED << linkVars, muxVars, codecVars >>

\* connectToPeripheral reaches its end: the characteristics are mapped and
\* subscribed, connected is set, connecting cleared and 'connected' emitted,
\* and emitted again after the try statement
connectToPeripheral_Succeed(a) ==
  /\ attempt[a].pc = "setup"
  /\ attempt[a].loop = "chars"
  /\ peripheralState = "connected"
  /\ requestCharacteristic' = a
  /\ connected' = TRUE
  /\ connecting' = FALSE
  /\ attempt' = [attempt EXCEPT ![a] = ended(@, "connected"),
                                ![a].connectedEmitted = @ + 2]
  /\ UNCHANGED << peripheral, peripheralState, scanning, attempts,
                  reconnectTimer, pendingReconnects, retryTimers, stopPc >>
  /\ UNCHANGED << epoch, lastChunk, disconnectedEvents >>
  /\ UNCHANGED << muxVars, codecVars >>

\* outside the discovery loops an await of connectToPeripheral rejects or
\* times out, a state check throws, or the service or a characteristic is
\* missing
connectToPeripheral_Fail(a) ==
  /\ attempt[a].pc \in {"connect", "setup"}
  /\ connectToPeripheral_Catch(a, "failed")

\* the peripheral's 'disconnect' event (the link dropped, or a requested
\* disconnect completed): every registered listener runs handleDisconnection,
\* which clears the connection state, emits 'disconnected' and stores a new
\* 3 s reconnect timer in reconnectTimer without clearing the one it held
peripheralDisconnect ==
  /\ peripheralState \in {"connected", "disconnecting"}
  /\ peripheralState' = "disconnected"
  /\ connected' = FALSE
  /\ connecting' = FALSE
  /\ peripheral' = FALSE
  /\ requestCharacteristic' = 0
  /\ disconnectedEvents' = disconnectedEvents + listeners
  /\ pendingReconnects' = pendingReconnects + listeners
  /\ reconnectTimer' = TRUE
  /\ UNCHANGED << scanning, attempt, attempts, retryTimers, stopPc >>
  /\ UNCHANGED << epoch, lastChunk >>
  /\ UNCHANGED << muxVars, codecVars >>

\* the oldest pending reconnect timer fires (the one reconnectTimer holds is
\* the newest): startScanning unless connected
reconnectTimerFires ==
  /\ pendingReconnects > 0
  /\ pendingReconnects' = pendingReconnects - 1
  /\ reconnectTimer' = (reconnectTimer /\ pendingReconnects > 1)
  /\ scanning' = IF ~connected THEN startScanning(scanning) ELSE scanning
  /\ UNCHANGED << connecting, peripheral, peripheralState, attempt, attempts,
                  retryTimers, stopPc >>
  /\ UNCHANGED << linkVars, muxVars, codecVars >>

\* a 2 s timer of handlePeripheralDiscovery fires: startScanning
retryTimerFires ==
  /\ retryTimers > 0
  /\ retryTimers' = retryTimers - 1
  /\ scanning' = startScanning(scanning)
  /\ UNCHANGED << connecting, peripheral, peripheralState, attempt, attempts,
                  reconnectTimer, pendingReconnects, stopPc >>
  /\ UNCHANGED << linkVars, muxVars, codecVars >>

\* what disconnect() does after the optional peripheral.disconnect
disconnect_Tail ==
  /\ scanning' = FALSE
  /\ connected' = FALSE
  /\ connecting' = FALSE
  /\ stopPc' = "done"

\* disconnect(): the timer reconnectTimer holds is cleared; when connected,
\* peripheral.disconnect is awaited, else the rest runs at once
disconnect ==
  /\ stopPc = "idle"
  /\ pendingReconnects' = IF reconnectTimer THEN pendingReconnects - 1
                          ELSE pendingReconnects
  /\ reconnectTimer' = FALSE
  /\ IF peripheral /\ connected
     THEN /\ peripheralState' = IF peripheralState = "connected"
                                THEN "disconnecting" ELSE peripheralState
          /\ stopPc' = "awaiting"
          /\ UNCHANGED << scanning, connected, connecting >>
     ELSE /\ disconnect_Tail
          /\ UNCHANGED peripheralState
  /\ UNCHANGED << peripheral, attempt, attempts, retryTimers >>
  /\ UNCHANGED << requestCharacteristic, epoch, lastChunk, disconnectedEvents >>
  /\ UNCHANGED << muxVars, codecVars >>

\* disconnect() resumes after peripheral.disconnect: it called back (after
\* the 'disconnect' event), failed or timed out, errors being ignored
disconnect_Resume ==
  /\ stopPc = "awaiting"
  /\ disconnect_Tail
  /\ UNCHANGED << peripheral, peripheralState, attempt, attempts,
                  reconnectTimer, pendingReconnects, retryTimers >>
  /\ UNCHANGED << requestCharacteristic, epoch, lastChunk, disconnectedEvents >>
  /\ UNCHANGED << muxVars, codecVars >>

LifeNext ==
  \/ \E a \in Attempts : connectToDevice(a)
  \/ \E a \in Attempts : connectToDevice_Connect(a)
  \/ \E a \in Attempts : handlePeripheralDiscovery(a)
  \/ \E a \in Attempts : peripheralConnected(a)
  \/ \E a \in Attempts : discover_Ok(a)
  \/ \E a \in Attempts : discover_Failed(a)
  \/ \E a \in Attempts : retry_Next(a)
  \/ \E a \in Attempts : unplug_Done(a)
  \/ \E a \in Attempts : discoverCharacteristics(a)
  \/ \E a \in Attempts : connectToPeripheral_Succeed(a)
  \/ \E a \in Attempts : connectToPeripheral_Fail(a)
  \/ peripheralDisconnect
  \/ reconnectTimerFires
  \/ retryTimerFires
  \/ disconnect
  \/ disconnect_Resume

SpecLife == Init /\ [][LifeNext]_vars

(***************************************************************************)
(* Claims on the connection lifecycle.                                     *)
(***************************************************************************)
\* C9: at most one connection attempt is in progress at any time: no second
\* connectToPeripheral runs while an earlier one has not finished.
C9_AtMostOneAttempt == Cardinality(InProgress) <= 1

\* C10: once an explicit disconnect() has completed, no scan runs, no
\* reconnect or retry timer is pending, and isConnected() is false.
C10_QuietAfterDisconnect ==
  stopPc = "done" =>
    /\ ~scanning
    /\ pendingReconnects = 0
    /\ retryTimers = 0
    /\ ~connected

(***************************************************************************)
(* Claims on the timeout sweep and on discarded responses.                 *)
(***************************************************************************)
\* C11: each run of the periodic sweep removes exactly the pending entries
\* whose age is strictly greater than the timeout and answers each of them
\* 408; every other entry stays in the table as it was, and no other sink is
\* written.
C11_SweepRemovesExactlyExpired ==
  [][sweepDue' # sweepDue =>
       /\ \A r \in DOMAIN pendingRequests :
            IF now - pendingRequests[r].timestamp > timeout
            THEN /\ r \notin DOMAIN pendingRequests'
                 /\ sinks'[r] = Append(sinks[r], Answer(408, "sweep", 0))
            ELSE /\ r \in DOMAIN pendingRequests'
                 /\ pendingRequests'[r] = pendingRequests[r]
                 /\ sinks'[r] = sinks[r]
       /\ DOMAIN pendingRequests' \subseteq DOMAIN pendingRequests
       /\ \A r \in Reqs \ DOMAIN pendingRequests : sinks'[r] = sinks[r]]_vars

\* C11 witness: a sweep has answered the older request 408 and left the
\* younger one, whose age equals the timeout, pending and unanswered.
C11_Witness ==
  /\ sinks[1] = << Answer(408, "sweep", 0) >>
  /\ 1 \notin DOMAIN pendingRequests
  /\ 2 \in DOMAIN pendingRequests
  /\ now - pendingRequests[2].timestamp = timeout
  /\ sinks[2] = <<>>
  /\ sweepDue > now

\* C12: a request that receives no response is resolved with a timeout error
\* once its timeout has elapsed: no entry whose age has reached the timeout
\* is still pending at a moment at which no sweep is due.
C12_ResolvedWhenTimeoutElapsed ==
  \A r \in DOMAIN pendingRequests :
    now - pendingRequests[r].timestamp >= timeout => now >= sweepDue

\* C13: a response whose id has no entry in the pending table is discarded:
\* handling it leaves the table and every sink unchanged, so a response that
\* comes after the timeout or the cancellation is never delivered.
C13_UnknownIdDiscarded ==
  [][\A m \in inflight \ inflight' :
       m.id \notin DOMAIN pendingRequests =>
         /\ pendingRequests' = pendingRequests
         /\ sinks' = sinks]_vars

\* C13 witness: a CONNECT request was sent completely on a connection that
\* never dropped and was answered 408 by the sweep; the peer's response for
\* it has been handled and the 408 is still its only answer, while the other
\* request is pending untouched.
C13_Witness ==
  /\ disconnectedEvents = 0
  /\ handler[1].kind = "connect"
  /\ handler[1].pc = "done"
  /\ sinks[1] = << Answer(408, "sweep", 0) >>
  /\ 1 \notin peerHas
  /\ \A m \in inflight : m.id # 1
  /\ 2 \in DOMAIN pendingRequests
  /\ sinks[2] = <<>>

\* C14: a browser request (HTTP or CONNECT) that arrives while isConnected()
\* is false is answered 503 at once and its handler returns: no entry is
\* added to the pending table and nothing is written to the transport.
C14_NotConnectedAnswered503 ==
  [][\A r \in Reqs :
       (handler[r].pc = "new" /\ handler'[r].pc # "new" /\ ~connected) =>
         /\ sinks'[r] = << Answer(503, "notConnected", 0) >>
         /\ handler'[r].pc = "done"
         /\ pendingRequests' = pendingRequests
         /\ lastChunk' = lastChunk
         /\ peerHas' = peerHas]_vars

\* C14 witness: after a connection was lost, an HTTP and a CONNECT request
\* arrived and each was answered 503 without an entry.
C14_Witness ==
  /\ disconnectedEvents >= 1
  /\ ~connected
  /\ \A r \in Reqs : sinks[r] = << Answer(503, "notConnected", 0) >>
  /\ handler[1].kind # handler[2].kind
  /\ pendingRequests = EmptyMap
  /\ lastChunk = NoChunk

(***************************************************************************)
(* SpecSend: one sender puts one frame on the wire.  BLEClient writes it   *)
(* chunk by chunk (sendChunkedData); MockBLEClient.sendRequest and         *)
(* MockIOSService.sendResponse hand the whole frame to socket.write.       *)
(***************************************************************************)
\* the payload of n bytes that is sent
SendPayload(n) == [k \in 1..n |-> k % 256]

SendLengths == (0..MaxSendLen) \cup {LongSendLen}

\* sendChunkedData's slice with the end taken one byte too far
chunkAt_OneTooLong(full, i) == Slice(full, i, i + maxChunkSize + 1)

\* sendChunkedData: fullData.slice(i, i + this.maxChunkSize)
chunkAt(full, i) == Slice(full, i, i + maxChunkSize)

SendInit ==
  /\ txSender \in {"ble", "mock", "peer"}
  /\ txData \in {SendPayload(n) : n \in SendLengths}
  /\ txI = 0
  /\ txWire = <<>>
  /\ txPc = "ready"
  /\ txFrame = 1
  /\ payload = <<>>
  /\ threshold = 0
  /\ skipCompression = FALSE
  /\ chunkSize = 1
  /\ offset = 0
  /\ rx = IdleRx
  /\ responses = <<>>
  /\ decoded = <<>>
  /\ LinkInit
  /\ MuxInit
  /\ LifeInit
  /\ StreamIdle
  /\ MockIdle
  /\ PeerIdle
  /\ RunIdle

SendUnchanged ==
  /\ UNCHANGED << txSender, txData, txFrame >>
  /\ UNCHANGED << payload, threshold, skipCompression, chunkSize, offset, rx,
                  responses, decoded, streamVars, mockVars >>
  /\ UNCHANGED << linkVars, muxVars, lifeVars >>

\* sendChunkedData: the loop test holds and the write of the chunk at offset
\* i is started
sendChunkedData_Write ==
  /\ txSender = "ble"
  /\ txPc = "ready"
  /\ txI < Len(fullData(txData))
  /\ txWire' = Append(txWire, chunkAt(fullData(txData), txI))
  /\ txPc' = "writing"
  /\ UNCHANGED txI
  /\ SendUnchanged

\* sendChunkedData: the write called back without error; after the 10 ms
\* sleep (when more is to be sent) i advances by maxChunkSize
sendChunkedData_WriteDone ==
  /\ txPc = "writing"
  /\ txI' = txI + maxChunkSize
  /\ txPc' = IF txI + maxChunkSize < Len(fullData(txData)) THEN "ready" ELSE "done"
  /\ UNCHANGED txWire
  /\ SendUnchanged

\* sendChunkedData: the write called back with an error or timed out, and
\* 'Failed to send chunk at offset i' is thrown
sendChunkedData_Throw ==
  /\ txPc = "writing"
  /\ txPc' = "failed"
  /\ UNCHANGED << txI, txWire >>
  /\ SendUnchanged

\* MockBLEClient.sendRequest / MockIOSService.sendResponse:
\* socket.write(fullData)
socket_write ==
  /\ txSender \in {"mock", "peer"}
  /\ txPc = "ready"
  /\ txWire' = << fullData(txData) >>
  /\ txPc' = "done"
  /\ UNCHANGED txI
  /\ SendUnchanged

SendNext ==
  \/ sendChunkedData_Write
  \/ sendChunkedData_WriteDone
  \/ sendChunkedData_Throw
  \/ socket_write

SpecSend == SendInit /\ [][SendNext]_vars

\* the bytes on the wire
wireBytes == Concat(txWire)

(***************************************************************************)
(* Claims on the senders.                                                  *)
(***************************************************************************)
\* C15: sendChunkedData writes the frame as chunks of at most maxChunkSize
\* bytes in increasing offset order (what is on the wire is always a prefix
\* of the frame), a write is started only when the previous one completed
\* (the wire ends at offset i while no write is pending and at the end of the
\* chunk at i while one is), and when the loop ends the concatenation of the
\* chunks is the 4-byte header followed by the payload.
C15_ChunksSequentialAndComplete ==
  txSender = "ble" =>
    LET full == WriteUInt32LE(Len(txData)) \o txData
    IN  /\ \A k \in 1..Len(txWire) : Len(txWire[k]) \in 1..maxChunkSize
        /\ wireBytes = SubSeq(full, 1, Len(wireBytes))
        /\ txPc = "ready" => Len(wireBytes) = txI
        /\ txPc \in {"writing", "failed"} =>
             Len(wireBytes) = Min(txI + maxChunkSize, Len(full))
        /\ txPc = "done" => wireBytes = full

\* C15 witness: the longest of the short payloads was written as three chunks,
\* two of maxChunkSize bytes and a shorter last one.
C15_Witness ==
  /\ txSender = "ble"
  /\ txPc = "done"
  /\ Len(txData) = MaxSendLen
  /\ Len(txWire) = 3
  /\ Len(txWire[1]) = maxChunkSize
  /\ Len(txWire[3]) < maxChunkSize

\* C16: the frame any sender (BLEClient, MockBLEClient, MockIOSService) puts
\* on the wire starts with 4 bytes that, read as a little-endian unsigned
\* integer, equal the number of payload bytes that follow, and those bytes
\* are the payload.
C16_LittleEndianLengthHeader ==
  /\ Len(wireBytes) >= 4 =>
       wireBytes[1] + 256 * wireBytes[2] + 65536 * wireBytes[3]
         + 16777216 * wireBytes[4] = Len(txData)
  /\ Len(wireBytes) > 0 => Len(wireBytes) >= 4
  /\ txPc = "done" =>
       /\ Len(wireBytes) = 4 + Len(txData)
       /\ SubSeq(wireBytes, 5, Len(wireBytes)) = txData

\* C16 witness: the mock peer has put a frame with a payload of more than 255
\* bytes on the wire, whose length needs the second header byte.
C16_Witness ==
  /\ txPc = "done"
  /\ txSender = "peer"
  /\ Len(txData) = LongSendLen
  /\ wireBytes[1] = LongSendLen % 256
  /\ wireBytes[2] = LongSendLen \div 256
  /\ wireBytes[2] > 0

(***************************************************************************)
(* SpecStream: the peer sends two frames back to back; the transport       *)
(* delivers the byte stream in writes of any size (a write may hold the    *)
(* tail of one frame and the head of the next), and each 'data' event is   *)
(* handed to handleResponseData of BLEClient and of MockBLEClient.         *)
(***************************************************************************)
\* the payloads the streamed frames carry
StreamPayloads == SeqsUpTo({9}, MaxStreamPayload)

\* MockBLEClient.handleResponseData keeping the header bytes in the payload
MockBLEClient_handleResponseData_KeepsHeader(st, data) ==
  IF ~st.receiving /\ Len(data) < 4
  THEN [rx |-> st, emit |-> <<>>]
  ELSE
    LET started ==
          IF ~st.receiving
          THEN [receiving |-> TRUE,
                expectedLength |-> ReadUInt32LE(data),
                receivedChunks |-> <<data>>,
                receivedLength |-> Len(data)]
          ELSE [st EXCEPT !.receivedChunks = Append(@, data),
                          !.receivedLength = @ + Len(data)]
    IN  IF started.receivedLength >= started.expectedLength
        THEN [rx |-> [started EXCEPT !.receiving = FALSE,
                                     !.receivedChunks = <<>>,
                                     !.receivedLength = 0],
              emit |-> << Slice(Concat(started.receivedChunks), 0,
                                started.expectedLength) >>]
        ELSE [rx |-> started, emit |-> <<>>]

\* MockBLEClient.handleResponseData(data) on reassembly state st: the new
\* state and the payloads emitted as 'response'
MockBLEClient_handleResponseData(st, data) ==
  IF ~st.receiving
  THEN IF Len(data) < 4
       THEN [rx |-> st, emit |-> <<>>]
       ELSE LET remainingData == Slice(data, 4, Len(data))
                expectedLength == ReadUInt32LE(data)
                receivedChunks == IF Len(remainingData) > 0
                                  THEN <<remainingData>> ELSE <<>>
                receivedLength == Len(remainingData)
            IN  IF receivedLength >= expectedLength
                THEN [rx |-> [receiving |-> FALSE, receivedChunks |-> <<>>,
                              receivedLength |-> 0,
                              expectedLength |-> expectedLength],
                      emit |-> << Slice(Concat(receivedChunks), 0, expectedLength) >>]
                ELSE [rx |-> [receiving |-> TRUE, receivedChunks |-> receivedChunks,
                              receivedLength |-> receivedLength,
                              expectedLength |-> expectedLength],
                      emit |-> <<>>]
  ELSE LET receivedChunks == Append(st.receivedChunks, data)
           receivedLength == st.receivedLength + Len(data)
       IN  IF receivedLength >= st.expectedLength
           THEN [rx |-> [st EXCEPT !.receiving = FALSE, !.receivedChunks = <<>>,
                                   !.receivedLength = 0],
                 emit |-> << Slice(Concat(receivedChunks), 0, st.expectedLength) >>]
           ELSE [rx |-> [st EXCEPT !.receivedChunks = receivedChunks,
                                   !.receivedLength = receivedLength],
                 emit |-> <<>>]

\* the bytes the peer puts on the wire: one frame after the other
stream == Concat([k \in 1..Len(stFrames) |-> fullData(stFrames[k])])

StreamInit ==
  /\ stFrames \in {<<p, q>> : p \in StreamPayloads, q \in StreamPayloads}
  /\ stPos = 0
  /\ stLink = 0
  /\ stBle = BleIdleRx
  /\ stMock = IdleRx
  /\ stOutBle = <<>>
  /\ stOutMock = <<>>
  /\ stRejected = 0
  /\ payload = <<>>
  /\ threshold = 0
  /\ skipCompression = FALSE
  /\ chunkSize = 1
  /\ offset = 0
  /\ rx = IdleRx
  /\ responses = <<>>
  /\ decoded = <<>>
  /\ SendIdle
  /\ MockIdle
  /\ PeerIdle
  /\ RunIdle
  /\ LinkInit
  /\ MuxInit
  /\ LifeInit

\* handleResponseData takes its 'Invalid response header' return
headerRejected(st, data) == ~st.receiving /\ Len(data) < 4

\* a 'data' event with the next n bytes of the stream: both clients run
\* handleResponseData on it
onData(n) ==
  /\ stPos + n <= Len(stream)
  /\ LET data == Slice(stream, stPos, stPos + n)
         b    == handleResponseData(stBle, data)
         m    == MockBLEClient_handleResponseData(stMock, data)
     IN  /\ stBle' = b.rx
         /\ stOutBle' = stOutBle \o b.emit
         /\ stMock' = m.rx
         /\ stOutMock' = stOutMock \o m.emit
         /\ stRejected' = IF stRejected = 0 /\ headerRejected(stMock, data)
                          THEN stPos + n ELSE stRejected
  /\ stPos' = stPos + n
  /\ UNCHANGED << stFrames, stLink >>
  /\ UNCHANGED << payload, threshold, skipCompression, chunkSize, offset, rx,
                  responses, decoded, sendVars, mockVars >>
  /\ UNCHANGED << linkVars, muxVars, lifeVars >>

StreamNext == \E n \in 1..(2 * (4 + MaxStreamPayload)) : onData(n)

SpecStream == StreamInit /\ [][StreamNext]_vars

\* the whole stream has been delivered
StreamFed == stPos = Len(stream)

(***************************************************************************)
(* Claims on the receive path.                                             *)
(***************************************************************************)
\* C17: whatever the boundaries of the transport writes, also when a write
\* holds the tail of one frame and the head of the next, the receiver
\* delivers both frames intact and in order.
C17_BothFramesDelivered ==
  StreamFed => stOutMock = stFrames

\* C18 as stated: fed the same chunks, MockBLEClient and BLEClient emit the
\* same sequence of 'response' payloads and are in the same reassembly state.
C18_SameResponsesSameState ==
  /\ stOutBle = stOutMock
  /\ stBle = stMock

\* a chunk that starts a frame (4 bytes or more while idle) has been handled
FrameStarted == stBle.expectedLength # Undefined

\* C18 amended: fed the same chunks, both clients emit the same sequence of
\* 'response' payloads; their reassembly states are equal once a first chunk
\* of at least 4 bytes has been handled, and until then they differ only in
\* receivedLength and expectedLength, which BLEClient's constructor leaves
\* undefined and MockBLEClient's sets to 0.
C18_SameResponsesStateAfterFirstFrame ==
  /\ stOutBle = stOutMock
  /\ FrameStarted => stBle = stMock
  /\ ~FrameStarted =>
       /\ stBle = BleIdleRx
       /\ stMock = IdleRx
       /\ stOutBle = <<>>

\* C18 witness: both clients have reassembled the first frame from several
\* chunks and are in the middle of the second one.
C18_Witness ==
  /\ Len(stFrames[1]) > 0
  /\ stOutBle = << stFrames[1] >>
  /\ stOutMock = << stFrames[1] >>
  /\ stBle.receiving
  /\ stBle = stMock
  /\ stBle.receivedLength > 0

(***************************************************************************)
(* Claims on failures of the multiplexer's send and receive paths.         *)
(***************************************************************************)
\* C19: when a chunk write fails while the frame of a request is being sent,
\* only that request fails: its caller gets the error answer and its pending
\* entry is removed, the connection state is left as it was, and every other
\* pending entry and every other caller's sink is unchanged.
C19_WriteFailureFailsOnlyThatRequest ==
  [][\A r \in Reqs :
       (handler[r].pc = "send" /\ handler'[r].pc = "done" /\ r \notin peerHas') =>
         /\ r \notin DOMAIN pendingRequests'
         /\ r \in DOMAIN pendingRequests =>
              sinks'[r] = Append(sinks[r], Answer(500, "error", 0))
         /\ sinks'[r] # <<>>
         /\ connected' = connected
         /\ requestCharacteristic' = requestCharacteristic
         /\ disconnectedEvents' = disconnectedEvents
         /\ \A q \in Reqs \ {r} :
              /\ sinks'[q] = sinks[q]
              /\ (q \in DOMAIN pendingRequests') = (q \in DOMAIN pendingRequests)
              /\ q \in DOMAIN pendingRequests =>
                   pendingRequests'[q] = pendingRequests[q]]_vars

\* C19 witness: on a connection that never dropped, a write of request 1's
\* frame failed: request 1 was answered 500 and has no entry, the link is
\* still connected and request 2 is still pending and unanswered.
C19_Witness ==
  /\ disconnectedEvents = 0
  /\ connected
  /\ lastChunk.req = 1
  /\ handler[1].pc = "done"
  /\ sinks[1] = << Answer(500, "error", 0) >>
  /\ 1 \notin DOMAIN pendingRequests
  /\ 2 \in DOMAIN pendingRequests
  /\ sinks[2] = <<>>

\* C20: a response frame that fails decompression or JSON parsing resolves
\* and removes no pending entry and writes to no sink; the request it
\* belonged to is answered only by a sweep (408) or by a disconnect (503),
\* never with a response.
C20_UndecodableFrameResolvesNothing ==
  [][/\ \A m \in inflight \ inflight' :
          ~m.decodes => /\ pendingRequests' = pendingRequests
                        /\ sinks' = sinks
     /\ \A r \in Reqs :
          handler'[r].garbled =>
            \A k \in 1..Len(sinks'[r]) :
              \/ sinks'[r][k] = Answer(408, "sweep", 0)
              \/ sinks'[r][k] = Answer(503, "disconnect", 0)]_vars

\* C20 witness: on a connection that never dropped, the response frame of
\* request 1 was undecodable and was discarded: no further response for it
\* can come, and its entry is still pending and unanswered when its timeout
\* has elapsed, left to the next sweep.
C20_Witness ==
  /\ disconnectedEvents = 0
  /\ handler[1].garbled
  /\ 1 \notin peerHas
  /\ \A m \in inflight : m.id # 1
  /\ 1 \in DOMAIN pendingRequests
  /\ sinks[1] = <<>>
  /\ now - pendingRequests[1].timestamp >= timeout

(***************************************************************************)
(* SpecMock: the connection lifecycle of MockBLEClient in                  *)
(* mock-ble-client.js.  Every connectToMockService that passes its guard   *)
(* creates a socket, attaches the listeners of setupSocketHandlers and     *)
(* awaits a promise that the socket's connect callback resolves and that   *)
(* its once('error') listener or a 10 s timer rejects.  A socket whose     *)
(* promise timed out is not destroyed, and the timer of a promise is not   *)
(* cleared when handleDisconnection destroys its socket: both stay, in     *)
(* sockets.others once this.socket refers to another socket.               *)
(* reconnectTimer holds the delay of the pending timer, NoTimer when none  *)
(* is pending.                                                             *)
(***************************************************************************)
maxReconnectAttempts == 10

reconnectDelay == 3000

\* the client's fields, its sockets and the record of what it emitted, as a
\* step finds them: the step has emitted nothing yet
MockState == [mock |-> mock, sockets |-> sockets,
              emitted |-> [emitted EXCEPT !.events = <<>>]]

\* the socket can still raise an event the client listens to, or the timer
\* of its connect promise is pending
Live(s) ==
  \/ s.pending
  \/ s.listeners /\ s.state \in {"connecting", "open", "closing"}

\* the bag b with socket s added, when s is of any consequence
Keep(b, s) == IF Live(s) THEN b (+) SetToBag({s}) ELSE b

\* the sockets of the client: this.socket (current) and the others
SocketRefs ==
  (IF mock.socket THEN {[current |-> TRUE, socket |-> sockets.current]} ELSE {})
    \cup {[current |-> FALSE, socket |-> s] : s \in BagToSet(sockets.others)}

SocketOf(w) == w.socket

\* st with socket w replaced by s
WithSocket(st, w, s) ==
  IF w.current
  THEN [st EXCEPT !.sockets.current = s]
  ELSE [st EXCEPT !.sockets.others = Keep(@ (-) SetToBag({w.socket}), s)]

\* scheduleReconnect(): the timer reconnectTimer holds is cleared and a new
\* one is set reconnectDelay ahead
scheduleReconnect(st) == [st EXCEPT !.mock.reconnectTimer = reconnectDelay]

\* this.socket.removeAllListeners(); this.socket.destroy(); this.socket = null
destroySocket(st) ==
  IF ~st.mock.socket THEN st
  ELSE [st EXCEPT
          !.mock.socket = FALSE,
          !.sockets = [current |-> NoSocket,
                       others |-> Keep(st.sockets.others,
                                       [st.sockets.current EXCEPT
                                          !.state = "closed",
                                          !.listeners = FALSE])]]

\* MockBLEClient.handleDisconnection(): the flags are cleared, this.socket
\* loses its listeners and is destroyed, 'disconnected' is emitted and a
\* reconnect is scheduled unless connectionAttempts reached the maximum
MockBLEClient_handleDisconnection(st) ==
  LET s1 == [destroySocket(st) EXCEPT
               !.mock.connected = FALSE,
               !.mock.connecting = FALSE,
               !.emitted.events = Append(@, "disconnected"),
               !.emitted.last = "disconnected"]
  IN  IF s1.mock.connectionAttempts < maxReconnectAttempts
      THEN scheduleReconnect(s1) ELSE s1

\* connectToMockService() up to its await: nothing when connecting or
\* connected, else a new attempt starts with a new socket in this.socket
connectToMockService(st) ==
  IF st.mock.connecting \/ st.mock.connected THEN st
  ELSE [st EXCEPT
          !.mock.connecting = TRUE,
          !.mock.connectionAttempts = @ + 1,
          !.mock.socket = TRUE,
          !.sockets = [current |-> [state |-> "connecting", listeners |-> TRUE,
                                    pending |-> TRUE],
                       others |-> IF st.mock.socket
                                  THEN Keep(st.sockets.others, st.sockets.current)
                                  ELSE st.sockets.others]]

\* connectToMockService() after its await resolved
connectToMockService_Resolved(st) ==
  [st EXCEPT !.mock.connected = TRUE,
             !.mock.connecting = FALSE,
             !.mock.connectionAttempts = 0,
             !.emitted.events = Append(@, "connected"),
             !.emitted.last = "connected",
             !.emitted.failures = 0]

\* the catch block of connectToMockService: the await rejected
connectToMockService_Rejected(st) ==
  LET s1 == [st EXCEPT !.mock.connecting = FALSE,
                       !.emitted.failures = @ + 1]
  IN  IF s1.mock.connectionAttempts < maxReconnectAttempts
      THEN scheduleReconnect(s1)
      ELSE [s1 EXCEPT !.emitted.events = Append(@, "error")]

\* the next state of the client
MockBecomes(st) ==
  /\ mock' = st.mock
  /\ sockets' = st.sockets
  /\ emitted' = st.emitted
  /\ UNCHANGED << payload, threshold, skipCompression, chunkSize, offset, rx,
                  responses, decoded, sendVars, streamVars, peerVars,
                  runVars >>
  /\ UNCHANGED << linkVars, muxVars, lifeVars >>

\* initialize(): the first connectToMockService
MockBLEClient_initialize ==
  /\ ~emitted.initialized
  /\ MockBecomes(connectToMockService(
       [MockState EXCEPT !.emitted.initialized = TRUE]))

\* socket w connects: the connect callback resolves the promise unless the
\* timeout rejected it before
socket_connect(w) ==
  /\ SocketOf(w).state = "connecting"
  /\ SocketOf(w).listeners
  /\ LET s1 == WithSocket(MockState, w,
                 [SocketOf(w) EXCEPT !.state = "open", !.pending = FALSE])
     IN  MockBecomes(IF SocketOf(w).pending
                     THEN connectToMockService_Resolved(s1) ELSE s1)

\* socket w emits 'error': the 'error' listener of setupSocketHandlers runs
\* handleDisconnection, then the promise's once('error') listener rejects
\* the promise and the catch block runs
socket_error(w) ==
  /\ SocketOf(w).state \in {"connecting", "open"}
  /\ SocketOf(w).listeners
  /\ LET s0 == WithSocket(MockState, w,
                 [SocketOf(w) EXCEPT !.state = "closing", !.pending = FALSE])
         s1 == MockBLEClient_handleDisconnection(s0)
     IN  MockBecomes(IF SocketOf(w).pending
                     THEN connectToMockService_Rejected(s1) ELSE s1)

\* socket w emits 'close' (after an error, after end(), or because the peer
\* closed it) while its listeners are attached
socket_close(w) ==
  /\ SocketOf(w).state \in {"open", "closing"}
  /\ SocketOf(w).listeners
  /\ MockBecomes(MockBLEClient_handleDisconnection(
       WithSocket(MockState, w, [SocketOf(w) EXCEPT !.state = "closed"])))

\* the 10 s timer of the connect promise of socket w fires: the promise
\* rejects and the catch block runs; the socket is left as it is
connectTimeout(w) ==
  /\ SocketOf(w).pending
  /\ emitted.timeouts < MaxTimeouts
  /\ MockBecomes(connectToMockService_Rejected(
       [WithSocket(MockState, w, [SocketOf(w) EXCEPT !.pending = FALSE])
          EXCEPT !.emitted.timeouts = @ + 1]))

\* the timer set by scheduleReconnect fires, reconnectDelay after it was set
MockReconnectTimerFires ==
  /\ mock.reconnectTimer = reconnectDelay
  /\ LET s0 == [MockState EXCEPT !.mock.reconnectTimer = NoTimer]
     IN  MockBecomes(IF ~mock.connected /\ ~mock.connecting
                     THEN connectToMockService(s0) ELSE s0)

\* disconnect(): the pending timer is cleared, connectionAttempts is set to
\* the maximum, this.socket is ended and the flags are cleared
MockBLEClient_disconnect ==
  /\ ~emitted.stopped
  /\ emitted.initialized
  /\ MockBecomes([MockState EXCEPT
       !.mock.reconnectTimer = NoTimer,
       !.mock.connectionAttempts = maxReconnectAttempts,
       !.mock.connected = FALSE,
       !.mock.connecting = FALSE,
       !.sockets.current = IF mock.socket /\ @.state = "open"
                           THEN [@ EXCEPT !.state = "closing"] ELSE @,
       !.emitted.stopped = TRUE])

MockNext ==
  \/ MockBLEClient_initialize
  \/ \E w \in SocketRefs : socket_connect(w)
  \/ \E w \in SocketRefs : socket_error(w)
  \/ \E w \in SocketRefs : socket_close(w)
  \/ \E w \in SocketRefs : connectTimeout(w)
  \/ MockReconnectTimerFires
  \/ MockBLEClient_disconnect

SpecMock == Init /\ [][MockNext]_vars

(***************************************************************************)
(* Claims on the lifecycle of the socket-link client.                      *)
(***************************************************************************)
\* a connection attempt failed in this step, not after an explicit stop, and
\* the failures since the last successful attempt stay below the retry bound
FailedBelowBound ==
  /\ emitted'.failures = emitted.failures + 1
  /\ emitted'.failures < maxReconnectAttempts
  /\ ~emitted.stopped

\* C21: after k consecutive failed connection attempts, k below the retry
\* bound, the socket-link client is not connected, the last event it emitted
\* is not 'connected', and one retry is scheduled reconnectDelay ahead.
C21_FailuresKeepRetrying ==
  [][FailedBelowBound =>
       /\ ~mock'.connected
       /\ emitted'.last # "connected"
       /\ mock'.reconnectTimer = reconnectDelay]_vars

\* the events the step emitted (none when the client took no step)
EmittedNow == IF emitted' = emitted THEN <<>> ELSE emitted'.events

\* the step emitted event e
Emits(e) == \E i \in 1..Len(EmittedNow) : EmittedNow[i] = e

\* a connection attempt failed in this step, not after an explicit stop
AttemptFailed ==
  /\ emitted'.failures = emitted.failures + 1
  /\ ~emitted.stopped

\* C22: the socket-link client makes at most maxReconnectAttempts consecutive
\* failed connection attempts: the failure that makes them maxReconnectAttempts
\* schedules no retry and emits 'error', and a successful connection resets
\* the count of consecutive failures to 0.
C22_GivesUpAfterMaxAttempts ==
  [][/\ AttemptFailed => emitted'.failures <= maxReconnectAttempts
     /\ (AttemptFailed /\ emitted'.failures = maxReconnectAttempts) =>
          /\ mock'.reconnectTimer = NoTimer
          /\ Emits("error")
     /\ Emits("connected") => mock'.connectionAttempts = 0]_vars

(***************************************************************************)
(* Claims on the setup of a BLE connection (SpecLife).                     *)
(***************************************************************************)
\* a try of the attempt's discovery loop failed in this step
TryFailed(a) ==
  /\ attempt[a].pc = "discover"
  /\ attempt'[a] # attempt[a]
  /\ attempt'[a].pc # "setup"

\* the attempt ended in this step while it was inside a discovery loop
EndedInLoop(a) ==
  /\ attempt[a].pc \in {"discover", "retry", "unplug"}
  /\ attempt'[a].pc = "done"

\* C23: within one connection attempt, service discovery is tried at most 3
\* times and characteristic discovery at most 3 times; when the last try of
\* either loop fails the attempt fails at once, and an attempt that ends
\* inside a loop clears connecting, does not set connected and has emitted
\* no 'connected', nor does it do anything afterwards.
C23_DiscoveryTriesBounded ==
  [][\A a \in Attempts :
       /\ attempt'[a].discoveryAttempts <= 3
       /\ attempt'[a].charDiscoveryAttempts <= 3
       /\ (TryFailed(a) /\ loopAttempts(attempt[a]) = 3) => EndedInLoop(a)
       /\ EndedInLoop(a) =>
            /\ attempt'[a].outcome \in {"failed", "exhausted"}
            /\ ~connecting'
            /\ connected' = connected
            /\ attempt'[a].connectedEmitted = 0
       /\ attempt[a].outcome \in {"failed", "exhausted"} =>
            attempt'[a] = attempt[a]]_vars

\* C23 witness: an attempt failed because the last try of a discovery loop
\* failed; connecting is clear and it emitted no 'connected'.
C23_Witness ==
  \E a \in Attempts :
    /\ attempt[a].outcome = "exhausted"
    /\ attempt[a].connectedEmitted = 0
    /\ ~connecting
    /\ ~connected

(***************************************************************************)
(* Claims on malformed headers and on the reassembly state (SpecStream).   *)
(***************************************************************************)
\* the stream position at which frame k starts
FrameStart(k) == Len(Concat([j \in 1..(k - 1) |-> fullData(stFrames[j])]))

\* this step hands frame k, whole and alone, to handleResponseData
DeliversFrame(k) ==
  /\ stPos = FrameStart(k)
  /\ stPos' = stPos + Len(fullData(stFrames[k]))

\* C24: a first chunk shorter than 4 bytes received while no frame is being
\* reassembled is rejected: no 'response' is emitted, the reassembly state is
\* left as it was (not receiving, no chunks), the connection state is
\* unchanged, and a frame that follows the rejected chunk in the stream is
\* decoded when it arrives.
C24_ShortFirstChunkRejected ==
  [][/\ (stPos' - stPos < 4 /\ ~stBle.receiving) =>
          /\ stOutBle' = stOutBle
          /\ stBle' = stBle
          /\ stBle'.receivedChunks = <<>>
     /\ (stPos' - stPos < 4 /\ ~stMock.receiving) =>
          /\ stOutMock' = stOutMock
          /\ stMock' = stMock
          /\ stMock'.receivedChunks = <<>>
     /\ UNCHANGED << linkVars, mockVars >>
     /\ \A k \in 1..Len(stFrames) :
          (stRejected > 0 /\ stRejected <= FrameStart(k) /\ DeliversFrame(k)) =>
             /\ stOutBle' = Append(stOutBle, stFrames[k])
             /\ stOutMock' = Append(stOutMock, stFrames[k])]_vars

(***************************************************************************)
(* Claims on the mock peer (Spec).                                         *)
(***************************************************************************)
\* C25: the response frame the mock peer sends for a request it received and
\* decoded carries that request's id, whatever the order in which concurrent
\* requests complete: a response put in flight in the step that finishes
\* request r has id r, and no response in flight has the id of a request the
\* peer has not answered yet.
C25_ResponseCarriesRequestId ==
  [][/\ \A r \in Reqs :
          (r \in peerHas /\ r \notin peerHas') =>
             \A m \in inflight' \ inflight : m.id = r
     /\ \A m \in inflight' : m.id \notin peerHas']_vars

\* C25 witness: the peer held requests 1 and 2 at once and answered the
\* later one first; its response carries id 2 while request 1 is still held.
C25_Witness ==
  /\ 1 \in peerHas
  /\ 2 \notin peerHas
  /\ \E m \in inflight : m.id = 2
  /\ \A m \in inflight : m.id = 2

(***************************************************************************)
(* SpecFair: Spec with the clock running and the cleanup interval firing   *)
(* whenever it is due (setInterval in setupCleanupTimer keeps firing for   *)
(* as long as the process runs).  Nothing else is assumed to happen: the   *)
(* peer may stay silent and the link may stay up.                          *)
(***************************************************************************)
SpecFair == Init /\ [][Next]_vars /\ WF_vars(Tick) /\ WF_vars(Sweep)

\* request r is in the pending table and the clock of the model reaches a
\* sweep at which r has expired
Accepted(r) ==
  /\ r \in DOMAIN pendingRequests
  /\ pendingRequests[r].timestamp + timeout < MaxTicks * TickMs

\* request r has been answered and has left the pending table
Answered(r) ==
  /\ r \notin DOMAIN pendingRequests
  /\ sinks[r] # <<>>

\* C26: every request accepted into the pending table is eventually answered
\* (by its response, a timeout or a disconnect cancellation) and leaves the
\* table, given that the sweep timer keeps firing.
C26_AcceptedEventuallyAnswered ==
  \A r \in Reqs : Accepted(r) ~> Answered(r)

\* C26 witness: a request whose response never arrived was answered 408 by
\* the sweep.
C26_Witness ==
  \E r \in Reqs :
    /\ Answered(r)
    /\ sinks[r] = << Answer(408, "sweep", 0) >>
    /\ r \in peerHas

\* C27: each successful connection setup emits the 'connected' event exactly
\* once.
C27_ConnectedEmittedOnce ==
  \A a \in Attempts :
    /\ attempt[a].outcome = "connected" => attempt[a].connectedEmitted = 1
    /\ attempt[a].outcome # "connected" => attempt[a].connectedEmitted = 0

(***************************************************************************)
(* Claims on the events of MockBLEClient (SpecMock).                       *)
(***************************************************************************)
IsConnectionEvent(e) == e \in {"none", "connected", "disconnected"}

\* the 'connected' or 'disconnected' emitted last before this step ("none"
\* when there was none), followed by those this step emits
ConnectionEvents == SelectSeq(<< emitted.last >> \o EmittedNow, IsConnectionEvent)

\* C28: a 'disconnected' event is emitted only for a connection announced
\* with 'connected': the connection event before every 'disconnected' is a
\* 'connected', so an attempt that fails before connecting emits none.
C28_DisconnectedOnlyAfterConnected ==
  [][\A i \in 2..Len(ConnectionEvents) :
       ConnectionEvents[i] = "disconnected" =>
         ConnectionEvents[i - 1] = "connected"]_vars

\* the reassembly state is idle
RxIdle(st) ==
  /\ ~st.receiving
  /\ st.receivedChunks = <<>>
  /\ st.receivedLength = 0

\* the reassembly state is in the middle of a frame
RxActive(st) ==
  /\ st.receiving
  /\ st.receivedLength < st.expectedLength
  /\ st.receivedLength = Len(Concat(st.receivedChunks))

\* a call of handleResponseData with data took the state from st to st2 and
\* the emitted responses from out to out2: a response is emitted exactly
\* when the payload bytes received for the frame reach the expected length,
\* and it holds the first expectedLength of them
EmitsWhenComplete(st, data, out, out2) ==
  IF headerRejected(st, data)
  THEN out2 = out
  ELSE LET expected == IF st.receiving THEN st.expectedLength
                       ELSE ReadUInt32LE(data)
           bytes    == IF st.receiving THEN Concat(st.receivedChunks) \o data
                       ELSE Slice(data, 4, Len(data))
       IN  IF Len(bytes) >= expected
           THEN out2 = Append(out, Slice(bytes, 0, expected))
           ELSE out2 = out

\* the chunk this step hands to handleResponseData
DataNow == Slice(stream, stPos, stPos')

\* C29 as stated: after every call of handleResponseData the reassembly
\* state is idle (not receiving, no chunks, receivedLength 0) or active
\* (receivedLength below expectedLength and equal to the size of the buffered
\* chunks), and a 'response' is emitted exactly when receivedLength reaches
\* expectedLength, carrying the first expectedLength payload bytes.
C29_ReassemblyStateAfterEveryCall ==
  [][/\ RxIdle(stBle') \/ RxActive(stBle')
     /\ RxIdle(stMock') \/ RxActive(stMock')
     /\ EmitsWhenComplete(stBle, DataNow, stOutBle, stOutBle')
     /\ EmitsWhenComplete(stMock, DataNow, stOutMock, stOutMock')]_vars

\* C29 amended: the same, except that BLEClient, whose constructor does not
\* assign receivedLength, is idle with receivedLength unset until the first
\* chunk of at least 4 bytes has been handled.
C29_ReassemblyStateOnceStarted ==
  [][/\ IF stBle'.expectedLength = Undefined
        THEN stBle' = BleIdleRx
        ELSE RxIdle(stBle') \/ RxActive(stBle')
     /\ RxIdle(stMock') \/ RxActive(stMock')
     /\ EmitsWhenComplete(stBle, DataNow, stOutBle, stOutBle')
     /\ EmitsWhenComplete(stMock, DataNow, stOutMock, stOutMock')]_vars

\* C29 witness: a frame was reassembled from several chunks and emitted, the
\* state went back to idle, and the next frame is being received.
C29_Witness ==
  /\ Len(stOutBle) = 1
  /\ Len(stOutBle[1]) = MaxStreamPayload
  /\ stOutMock = stOutBle
  /\ RxActive(stBle)
  /\ RxActive(stMock)
  /\ stBle.receivedLength > 0

\* the client had a disconnection or a failed connection attempt
HadFailure ==
  \/ disconnectedEvents > 0
  \/ \E a \in Attempts : attempt[a].outcome \in {"failed", "exhausted"}

\* no connection exists and none is being set up
ClientIdle ==
  /\ ~connected
  /\ \A a \in Attempts : attempt[a].pc \in {"none", "done"}

\* C30: after any disconnection or failed connection attempt that is not an
\* explicit stop, scanning is restarted after the retry delay, however many
\* failures there were: while the client is idle after a failure and
\* disconnect() was not called, a scan is running or a timer that restarts
\* it is pending.
C30_NeverGivesUpReconnecting ==
  (HadFailure /\ ClientIdle /\ stopPc = "idle") =>
     \/ scanning
     \/ pendingReconnects > 0
     \/ retryTimers > 0

(***************************************************************************)
(* SpecPeer: MockIOSService in mock-ios.js.  Clients connect, each writes  *)
(* request frames to its socket, the transport hands the bytes of each     *)
(* socket to handleData in pieces of any size, and every complete frame    *)
(* starts a processRequest, which finishes at any later time.  The data of *)
(* a request frame is the gzip of the byte that stands for its JSON text:  *)
(* the request's id, or NotJson for a text JSON.parse rejects; a frame may *)
(* also carry the text raw, as BLEProxy.compressData sends it below the    *)
(* compression threshold.                                                  *)
(***************************************************************************)
\* a text that is not JSON
NotJson == 0

\* the id of the k-th request written on connection c
requestIdOf(c, k) == MaxPeerFrames * (c - 1) + k

\* the data of the frames a client may write as its k-th frame on c
FrameData(c, k) ==
  {Gzip(<< requestIdOf(c, k) >>), << requestIdOf(c, k) >>, Gzip(<< NotJson >>)}

\* a connection as handleConnection stores it
NewConnection == [receiving |-> FALSE, expectedLength |-> 0,
                  receivedLength |-> 0, chunks |-> <<>>]

\* handleData(connectionId, data) on the connection's reassembly state: the
\* new state and the complete frames handed to processRequest (none or one)
MockIOSService_handleData(connection, data) ==
  IF ~connection.receiving /\ Len(data) < 4
  THEN [connection |-> connection, complete |-> <<>>]
  ELSE
    LET started ==
          IF ~connection.receiving
          THEN LET remainingData == Slice(data, 4, Len(data))
               IN  [receiving |-> TRUE,
                    expectedLength |-> ReadUInt32LE(data),
                    receivedLength |-> Len(remainingData),
                    chunks |-> IF Len(remainingData) > 0
                               THEN << remainingData >> ELSE <<>>]
          ELSE [connection EXCEPT !.chunks = Append(@, data),
                                  !.receivedLength = @ + Len(data)]
    IN  IF started.receivedLength >= started.expectedLength
        THEN [connection |-> [started EXCEPT !.receiving = FALSE,
                                             !.chunks = <<>>,
                                             !.receivedLength = 0],
              complete |-> << Slice(Concat(started.chunks), 0,
                                    started.expectedLength) >>]
        ELSE [connection |-> started, complete |-> <<>>]

\* sendResponse writing to the connection accepted last
sendResponse_connection_Latest(connectionId) == accepted

\* the connection sendResponse looks up: connections.get(connectionId)
sendResponse_connection(connectionId) == connectionId

\* sendResponse(connectionId, response): the sockets' output after it;
\* nothing is written when the connection is no longer in the Map
sendResponse(w, connectionId, response) ==
  LET c == sendResponse_connection(connectionId)
  IN  IF c \notin DOMAIN connections THEN w
      ELSE [w EXCEPT ![c].fromPeer = Append(@, response)]

\* the catch block of processRequest: building errorResponse reads request,
\* which is declared inside the try block and is not in scope here, so a
\* ReferenceError is thrown, caught by the inner catch block and logged;
\* nothing is sent
processRequest_Catch(w, t) == w

\* processRequest(connectionId, compressedData) for invocation t: the
\* sockets' output after it.  handlerOk: handleConnectRequest or
\* httpClient.makeRequest resolved
processRequest(w, t, handlerOk) ==
  IF t.connectionId \notin DOMAIN connections THEN w
  ELSE LET requestData == Gunzip(t.compressedData)
       IN  IF requestData.ok /\ requestData.data # << NotJson >> /\ handlerOk
           THEN sendResponse(w, t.connectionId,
                             [id |-> requestData.data[1], statusCode |-> 200,
                              frame |-> t.frame])
           ELSE processRequest_Catch(w, t)

PeerUnchanged ==
  /\ UNCHANGED << payload, threshold, skipCompression, chunkSize, offset, rx,
                  responses, decoded, sendVars, streamVars, mock, sockets,
                  emitted, runVars >>
  /\ UNCHANGED << linkVars, muxVars, lifeVars >>

\* the server's 'connection' event: handleConnection stores a new connection
\* under a fresh connectionId
handleConnection(c) ==
  /\ c = accepted + 1
  /\ accepted' = c
  /\ connections' = MapSet(connections, c, NewConnection)
  /\ UNCHANGED << wires, tasks >>
  /\ PeerUnchanged

\* the client of connection c writes its next request frame to its socket
client_write(c) ==
  /\ c <= accepted
  /\ wires[c].frames < MaxPeerFrames
  /\ \E data \in FrameData(c, wires[c].frames + 1) :
       wires' = [wires EXCEPT ![c].toPeer = @ \o fullData(data),
                              ![c].frames = @ + 1]
  /\ UNCHANGED << connections, tasks, accepted >>
  /\ PeerUnchanged

\* the 'data' event of connection c's socket with the next n bytes:
\* handleData, which starts processRequest for a complete frame
socket_data(c, n) ==
  /\ c \in DOMAIN connections
  /\ n <= Len(wires[c].toPeer)
  /\ LET data == SubSeq(wires[c].toPeer, 1, n)
         h    == MockIOSService_handleData(connections[c], data)
     IN  /\ connections' = [connections EXCEPT ![c] = h.connection]
         /\ tasks' = tasks \cup
              {[connectionId |-> c, compressedData |-> h.complete[i],
                frame |-> Cardinality({t \in tasks : t.connectionId = c})
                          + Len(wires[c].fromPeer) + i]
                 : i \in 1..Len(h.complete)}
  /\ wires' = [wires EXCEPT ![c].toPeer = SubSeq(@, n + 1, Len(@))]
  /\ UNCHANGED accepted
  /\ PeerUnchanged

\* a processRequest invocation runs to its end
processRequest_Finish(t) ==
  /\ t \in tasks
  /\ tasks' = tasks \ {t}
  /\ \E handlerOk \in BOOLEAN : wires' = processRequest(wires, t, handlerOk)
  /\ UNCHANGED << connections, accepted >>
  /\ PeerUnchanged

\* the 'close' (or 'error') event of connection c's socket: the connection
\* is deleted from the Map; what its client wrote is lost
socket_closed(c) ==
  /\ c \in DOMAIN connections
  /\ connections' = MapDelete(connections, c)
  /\ wires' = [wires EXCEPT ![c].toPeer = <<>>]
  /\ UNCHANGED << tasks, accepted >>
  /\ PeerUnchanged

PeerNext ==
  \/ \E c \in ConnIds : handleConnection(c)
  \/ \E c \in ConnIds : client_write(c)
  \/ \E c \in ConnIds, n \in 1..(2 * 8) : socket_data(c, n)
  \/ \E t \in tasks : processRequest_Finish(t)
  \/ \E c \in ConnIds : socket_closed(c)

SpecPeer == Init /\ [][PeerNext]_vars

(***************************************************************************)
(* Claims on the mock peer (SpecPeer).                                     *)
(***************************************************************************)
\* the ids of the requests written on connection c
RequestIdsOn(c) == {requestIdOf(c, k) : k \in 1..MaxPeerFrames}

\* C31: the mock peer keeps reassembly state per connection: a connection's
\* expectedLength, receivedLength and chunks change only in a step that reads
\* bytes of that connection, and a response is written only to the connection
\* on which its request arrived.
C31_PerConnectionState ==
  [][\A c \in ConnIds :
       /\ (c \in DOMAIN connections /\ c \in DOMAIN connections'
             /\ connections'[c] # connections[c]) =>
            /\ Len(wires'[c].toPeer) < Len(wires[c].toPeer)
            /\ \A d \in (DOMAIN connections \cap DOMAIN connections') \ {c} :
                 connections'[d] = connections[d]
       /\ wires'[c].fromPeer # wires[c].fromPeer =>
            \E t \in tasks \ tasks' : t.connectionId = c
       /\ \A i \in 1..Len(wires'[c].fromPeer) :
            wires'[c].fromPeer[i].id \in RequestIdsOn(c)]_vars

\* C31 witness: the request of connection 1 was answered on connection 1
\* while connection 2 was in the middle of a frame.
C31_Witness ==
  /\ Len(wires[1].fromPeer) = 1
  /\ wires[1].fromPeer[1].id = requestIdOf(1, 1)
  /\ wires[2].fromPeer = <<>>
  /\ 2 \in DOMAIN connections
  /\ connections[2].receiving
  /\ connections[2].receivedLength > 0

\* C33: when processing a received request frame fails at the mock peer
\* (gunzip, JSON.parse or the handler), the peer sends a 500 response frame
\* on that connection, with the request's id when it is known; so every
\* processRequest that finishes while its connection is open writes exactly
\* one response to it, a 200 with the request's id or a 500.
C33_EveryFrameGetsOneResponse ==
  [][\A t \in tasks \ tasks' :
       t.connectionId \in DOMAIN connections =>
         LET before == wires[t.connectionId].fromPeer
             after  == wires'[t.connectionId].fromPeer
         IN  /\ Len(after) = Len(before) + 1
             /\ SubSeq(after, 1, Len(before)) = before
             /\ after[Len(after)].statusCode \in {200, 500}
             /\ after[Len(after)].id \in
                  RequestIdsOn(t.connectionId) \cup {NotJson}]_vars

(***************************************************************************)
(* SpecRelink: the link of a client drops and comes back.  The peer sends  *)
(* the frame of stFrames[1] on the first connection and, after the         *)
(* disconnection, the frame of stFrames[2] on the second one; stPos counts *)
(* the bytes of the current connection that were delivered.                *)
(***************************************************************************)
\* the bytes the peer sends on the current connection
linkStream == fullData(stFrames[stLink + 1])

\* the 'Reset receiving state' lines of MockBLEClient.handleDisconnection
resetReceivingState(st) ==
  [st EXCEPT !.receiving = FALSE, !.receivedChunks = <<>>, !.receivedLength = 0]

\* what BLEClient.handleDisconnection does to the reassembly state: it
\* assigns connected, connecting, peripheral and the three characteristics,
\* none of receiving, receivedChunks, receivedLength, expectedLength
BLEClient_handleDisconnection(st) == st

\* a 'data' event with the next n bytes of the current connection: both
\* clients run handleResponseData on it
link_data(n) ==
  /\ stPos + n <= Len(linkStream)
  /\ LET data == Slice(linkStream, stPos, stPos + n)
         b    == handleResponseData(stBle, data)
         m    == MockBLEClient_handleResponseData(stMock, data)
     IN  /\ stBle' = b.rx
         /\ stOutBle' = stOutBle \o b.emit
         /\ stMock' = m.rx
         /\ stOutMock' = stOutMock \o m.emit
  /\ stPos' = stPos + n
  /\ UNCHANGED << stFrames, stLink, stRejected >>
  /\ UNCHANGED << payload, threshold, skipCompression, chunkSize, offset, rx,
                  responses, decoded, sendVars, mockVars >>
  /\ UNCHANGED << linkVars, muxVars, lifeVars >>

\* the link drops (socket 'close' / peripheral 'disconnect'): both clients run
\* handleDisconnection; the next bytes they receive are those of the next
\* connection
link_down ==
  /\ stLink = 0
  /\ stLink' = 1
  /\ stPos' = 0
  /\ stBle' = BLEClient_handleDisconnection(stBle)
  /\ stMock' = resetReceivingState(stMock)
  /\ UNCHANGED << stFrames, stOutBle, stOutMock, stRejected >>
  /\ UNCHANGED << payload, threshold, skipCompression, chunkSize, offset, rx,
                  responses, decoded, sendVars, mockVars >>
  /\ UNCHANGED << linkVars, muxVars, lifeVars >>

RelinkNext ==
  \/ \E n \in 1..(4 + MaxStreamPayload) : link_data(n)
  \/ link_down

SpecRelink == StreamInit /\ [][RelinkNext]_vars

\* the reassembly state st holds no part of a frame
NothingBuffered(st) == ~st.receiving /\ st.receivedChunks = <<>>

\* C32: after a disconnection the reassembly state of both clients is reset
\* (receiving false, no buffered chunks), so that the first bytes of the next
\* connection are parsed as a frame header.
C32_ReassemblyResetOnDisconnect ==
  (stLink = 1 /\ stPos = 0) =>
     /\ NothingBuffered(stMock)
     /\ NothingBuffered(stBle)

(***************************************************************************)
(* Claims on the connection flags of BLEClient.                            *)
(***************************************************************************)
\* C34: whenever connected is true, connecting is false and the request and
\* response characteristics are set, so that sendRequest does not throw
\* 'Not connected to BLE device' while isConnected() answers true.
C34_ConnectedImpliesReady ==
  connected =>
    /\ ~connecting
    /\ requestCharacteristic # 0
    /\ ~sendRequestRejects

\* the connectToDevice calls that passed the check and have not returned
DeviceCalls ==
  {a \in Attempts : attempt[a].origin = "device" /\ attempt[a].pc \in Running \cup {"reset"}}

\* C38: connectToDevice throws 'Already connecting or connected to a device'
\* whenever a connection exists or another attempt is in progress (a call is
\* let in only when there is neither), and two overlapping connectToDevice
\* calls never both reach connectToPeripheral.
C38_ConnectToDeviceGuard ==
  /\ [][\A a \in Attempts :
          (attempt[a].pc = "none" /\ attempt'[a].pc = "reset") =>
             /\ ~connected
             /\ InProgress = {}
             /\ DeviceCalls = {}]_vars
  /\ [](Cardinality(DeviceCalls \cap InProgress) <= 1)

(***************************************************************************)
(* SpecLoad: the size of the pending table.  The entries of                *)
(* pendingRequests are counted by kind; a browser may have any number of   *)
(* requests open at once, up to MaxLoad in one run.                        *)
(***************************************************************************)
\* config.proxy.maxConcurrentRequests
maxConcurrentRequests == 50

\* pendingRequests.size
size(l) == l.http + l.connect

\* what BLEProxy.start does with config.proxy.maxConcurrentRequests: it
\* prints it; no handler reads it, so no request is refused for it
refusedForLoad(l) == FALSE

\* proxyHTTPRequest / proxyHTTPSConnect of a request that arrived while the
\* client was connected: pendingRequests.set(requestId, ...)
pendingRequests_set(kind) ==
  /\ connected
  /\ size(load) < MaxLoad
  /\ ~refusedForLoad(load)
  /\ load' = [load EXCEPT ![kind] = @ + 1]
  /\ UNCHANGED << proxy, notify, peerVars, mock, sockets, emitted >>
  /\ UNCHANGED << payload, threshold, skipCompression, chunkSize, offset, rx,
                  responses, decoded, sendVars, streamVars >>
  /\ UNCHANGED << linkVars, muxVars, lifeVars >>

\* pendingRequests.delete(requestId): a response was handled, a catch block
\* ran or the sweep found the entry expired
pendingRequests_delete(kind) ==
  /\ load[kind] > 0
  /\ load' = [load EXCEPT ![kind] = @ - 1]
  /\ UNCHANGED << proxy, notify, peerVars, mock, sockets, emitted >>
  /\ UNCHANGED << payload, threshold, skipCompression, chunkSize, offset, rx,
                  responses, decoded, sendVars, streamVars >>
  /\ UNCHANGED << linkVars, muxVars, lifeVars >>

\* the client emits 'disconnected': clearAllPendingRequests ends with
\* pendingRequests.clear()
pendingRequests_clear ==
  /\ connected
  /\ connected' = FALSE
  /\ requestCharacteristic' = 0
  /\ disconnectedEvents' = disconnectedEvents + 1
  /\ load' = [http |-> 0, connect |-> 0]
  /\ UNCHANGED << epoch, lastChunk >>
  /\ UNCHANGED << proxy, notify, peerVars, mock, sockets, emitted >>
  /\ UNCHANGED << payload, threshold, skipCompression, chunkSize, offset, rx,
                  responses, decoded, sendVars, streamVars >>
  /\ UNCHANGED << muxVars, lifeVars >>

LoadNext ==
  \/ LinkUp
  \/ \E kind \in {"http", "connect"} : pendingRequests_set(kind)
  \/ \E kind \in {"http", "connect"} : pendingRequests_delete(kind)
  \/ pendingRequests_clear

SpecLoad == Init /\ [][LoadNext]_vars

\* C39: the number of simultaneously pending requests never exceeds
\* config.proxy.maxConcurrentRequests.
C39_PendingWithinLimit == size(load) <= maxConcurrentRequests

(***************************************************************************)
(* SpecResend: BLEClient sends a frame to the peripheral chunk by chunk, a *)
(* chunk write may fail, and the proxy then sends the next frame on the    *)
(* same connection.  rx is the peripheral's receivingData[central] and     *)
(* responses are the requests it handed to its delegate.                   *)
(***************************************************************************)
\* BLEPeripheralManager.handleIncomingData(data, from: central) on the
\* ReceivingData info of the central: the stored info and the request handed
\* to the delegate (none or one)
handleIncomingData(info, data) ==
  IF ~info.receiving /\ Len(data) < 4
  THEN [rx |-> info, emit |-> <<>>]
  ELSE
    LET receivingInfo ==
          IF ~info.receiving
          THEN LET remainingData == Slice(data, 4, Len(data))
               IN  [receiving |-> TRUE,
                    expectedLength |-> ReadUInt32LE(data),
                    receivedChunks |-> IF Len(remainingData) > 0
                                       THEN <<remainingData>> ELSE <<>>,
                    receivedLength |-> Len(remainingData)]
          ELSE [info EXCEPT !.receivedChunks = Append(@, data),
                            !.receivedLength = @ + Len(data)]
    IN  IF receivingInfo.receivedLength >= receivingInfo.expectedLength
        THEN [rx |-> IdleRx,
              emit |-> << Slice(Concat(receivingInfo.receivedChunks), 0,
                                receivingInfo.expectedLength) >>]
        ELSE [rx |-> receivingInfo, emit |-> <<>>]

ResendInit ==
  /\ SendInit
  /\ txSender = "ble"

ResendUnchanged ==
  /\ UNCHANGED << txSender, txData, txFrame >>
  /\ UNCHANGED << payload, threshold, skipCompression, chunkSize, offset,
                  decoded, streamVars, mockVars >>
  /\ UNCHANGED << linkVars, muxVars, lifeVars >>

\* sendChunkedData starts the write of the chunk at offset i and the chunk
\* reaches the peripheral: didReceiveWrite runs handleIncomingData on it
characteristic_write ==
  /\ txPc = "ready"
  /\ txI < Len(fullData(txData))
  /\ LET chunk == chunkAt(fullData(txData), txI)
         got   == handleIncomingData(rx, chunk)
     IN  /\ txWire' = Append(txWire, chunk)
         /\ rx' = got.rx
         /\ responses' = responses \o got.emit
  /\ txPc' = "writing"
  /\ UNCHANGED txI
  /\ ResendUnchanged

\* sendChunkedData starts the write of the chunk at offset i and the chunk
\* does not reach the peripheral
characteristic_write_Lost ==
  /\ txPc = "ready"
  /\ txI < Len(fullData(txData))
  /\ txPc' = "lost"
  /\ UNCHANGED << txI, txWire >>
  /\ SendUnchanged

\* the write of a chunk that did not reach the peripheral calls back with an
\* error or times out, and 'Failed to send chunk at offset i' is thrown
sendChunkedData_ThrowLost ==
  /\ txPc = "lost"
  /\ txPc' = "failed"
  /\ UNCHANGED << txI, txWire >>
  /\ SendUnchanged

\* the proxy's next request: sendRequest finds connected and the request
\* characteristic set, and sendChunkedData starts on the frame of n bytes
sendRequest_Next(n) ==
  /\ txPc \in {"done", "failed"}
  /\ txFrame = 1
  /\ txFrame' = 2
  /\ txData' = SendPayload(n)
  /\ txI' = 0
  /\ txPc' = "ready"
  /\ UNCHANGED << txSender, txWire >>
  /\ UNCHANGED << payload, threshold, skipCompression, chunkSize, offset, rx,
                  responses, decoded, streamVars, mockVars >>
  /\ UNCHANGED << linkVars, muxVars, lifeVars >>

ResendNext ==
  \/ characteristic_write
  \/ characteristic_write_Lost
  \/ sendChunkedData_WriteDone
  \/ sendChunkedData_Throw
  \/ sendChunkedData_ThrowLost
  \/ \E n \in SendLengths : sendRequest_Next(n)

SpecResend == ResendInit /\ [][ResendNext]_vars

\* C35: after a frame send failed part-way, the next frame sent on the same
\* connection is delivered to the peer as that frame: once its send is done,
\* the request the peer handed to its delegate last is the data of that frame.
C35_NextFrameDeliveredAfterFailure ==
  (txFrame = 2 /\ txPc = "done") =>
     /\ responses # <<>>
     /\ responses[Len(responses)] = txData

(***************************************************************************)
(* Claims on superseded sockets of MockBLEClient (SpecMock).               *)
(***************************************************************************)
\* the step is the 'error' or 'close' event of a socket that this.socket no
\* longer refers to, while this.socket refers to a newer one
SupersededSocketEvent ==
  /\ mock.socket
  /\ \E w \in SocketRefs : ~w.current /\ (socket_error(w) \/ socket_close(w))

\* C36: a 'close' or 'error' event of a superseded socket never changes the
\* state of the newer connection: it does not clear connected, does not
\* destroy the current socket and emits no 'disconnected'.
C36_SupersededSocketIsInert ==
  [][SupersededSocketEvent =>
       /\ mock'.connected = mock.connected
       /\ mock'.socket
       /\ sockets'.current = sockets.current
       /\ ~Emits("disconnected")]_vars

(***************************************************************************)
(* SpecNotify: BLEPeripheralManager sends responses to one subscribed      *)
(* central.  Each sendResponse stores the chunks of its frame in           *)
(* pendingResponses[central]; sendNextChunk notifies one chunk and         *)
(* schedules itself 10 ms later; updateValue may return false, and         *)
(* peripheralManagerIsReady then resumes.                                  *)
(***************************************************************************)
\* lengths of the responses: frames of one, two and three chunks
ResponseLengths == {1, 17, 37}

\* chunkData(data, maxChunkSize: 20)
chunkData(data) ==
  [i \in 1..((Len(data) + maxChunkSize - 1) \div maxChunkSize) |->
     Slice(data, maxChunkSize * (i - 1), maxChunkSize * i)]

\* sendResponse: pendingResponses[central] = chunks
storeChunks(pending, chunks) == chunks

\* sendNextChunk(to: central) on state st, updateValue returning success
sendNextChunk(st, success) ==
  IF st.pendingResponses = <<>> THEN st
  ELSE LET chunk  == Head(st.pendingResponses)
           chunks == Tail(st.pendingResponses)
       IN  IF success
           THEN [st EXCEPT !.sent = Append(@, chunk),
                           !.pendingResponses = chunks,
                           !.timers = IF chunks # <<>> THEN @ + 1 ELSE @]
           ELSE [st EXCEPT !.pendingResponses = <<chunk>> \o chunks,
                           !.full = TRUE]

NotifyUnchanged ==
  /\ UNCHANGED << proxy, load, peerVars, mock, sockets, emitted >>
  /\ UNCHANGED << payload, threshold, skipCompression, chunkSize, offset, rx,
                  responses, decoded, sendVars, streamVars >>
  /\ UNCHANGED << linkVars, muxVars, lifeVars >>

\* sendResponse(data, to: central) for a connected central: header, chunks,
\* pendingResponses[central] = chunks, then the first sendNextChunk
BLEPeripheralManager_sendResponse(n, success) ==
  /\ Len(notify.submitted) < MaxResponses
  /\ LET data == SendPayload(n)
         st   == [notify EXCEPT
                    !.submitted = Append(@, data),
                    !.pendingResponses = storeChunks(@, chunkData(fullData(data)))]
     IN  notify' = sendNextChunk(st, success)
  /\ NotifyUnchanged

\* the closure given to asyncAfter runs: sendNextChunk
sendNextChunk_Scheduled(success) ==
  /\ notify.timers > 0
  /\ notify' = sendNextChunk([notify EXCEPT !.timers = @ - 1], success)
  /\ NotifyUnchanged

\* peripheralManagerIsReady(toUpdateSubscribers:): sendNextChunk for every
\* connected central with pending chunks
peripheralManagerIsReady(success) ==
  /\ notify.full
  /\ notify' = sendNextChunk([notify EXCEPT !.full = FALSE], success)
  /\ NotifyUnchanged

NotifyNext ==
  \/ \E n \in ResponseLengths, success \in BOOLEAN :
       BLEPeripheralManager_sendResponse(n, success)
  \/ \E success \in BOOLEAN : sendNextChunk_Scheduled(success)
  \/ \E success \in BOOLEAN : peripheralManagerIsReady(success)

SpecNotify == Init /\ [][NotifyNext]_vars

\* the frames of the responses submitted so far, one after the other
submittedStream ==
  Concat([k \in 1..Len(notify.submitted) |-> fullData(notify.submitted[k])])

\* nothing is left to send and no sendNextChunk is due
Drained ==
  /\ notify.pendingResponses = <<>>
  /\ notify.timers = 0
  /\ ~notify.full

\* C37: a sendResponse made while an earlier response has unsent chunks does
\* not drop, truncate or reorder the earlier response: the notified chunks
\* are always the beginning of the submitted frames, in submission order, and
\* all of them once nothing is left to send.
C37_ResponsesNotifiedWhole ==
  LET sentBytes == Concat(notify.sent)
  IN  /\ Len(sentBytes) <= Len(submittedStream)
      /\ sentBytes = SubSeq(submittedStream, 1, Len(sentBytes))
      /\ Drained => sentBytes = submittedStream

(***************************************************************************)
(* SpecStop: the multiplexer of Spec with BLEProxy.stop().  stop() clears  *)
(* the cleanup interval and the pending table, then awaits the close of    *)
(* its servers, which completes when the connections of the requests that  *)
(* arrived have ended, then awaits bleClient.disconnect() and returns.     *)
(***************************************************************************)
\* sweepDue when no interval is set: a time the clock does not reach
NoSweep == (MaxTicks + 1) * TickMs

\* stop(): clearInterval(this.cleanupTimer)
clearInterval(due) == NoSweep

\* the proxy server accepts connections: stop() has not closed it
Listening == proxy = "running"

\* server.close(resolve) calls back: every request that arrived was answered
\* and its connection ended
ServersClosed == \A r \in Reqs : handler[r].pc = "new" \/ sinks[r] # <<>>

StopUnchanged ==
  /\ UNCHANGED << load, notify, peerVars, mock, sockets, emitted >>
  /\ UNCHANGED << payload, threshold, skipCompression, chunkSize, offset, rx,
                  responses, decoded, sendVars, streamVars >>
  /\ UNCHANGED lifeVars

\* stop() up to its first await: isRunning is cleared, the cleanup interval
\* is cleared, clearAllPendingRequests('Proxy shutting down') runs and the
\* servers are asked to close
BLEProxy_stop ==
  /\ proxy = "running"
  /\ proxy' = "closing"
  /\ sweepDue' = clearInterval(sweepDue)
  /\ sinks' = clearAllPendingRequests(pendingRequests, sinks)
  /\ pendingRequests' = EmptyMap
  /\ UNCHANGED << handler, peerHas, inflight, now >>
  /\ UNCHANGED linkVars
  /\ StopUnchanged

\* stop() after the servers closed: bleClient.disconnect() disconnects the
\* peripheral when connected, whose 'disconnect' event runs
\* handleDisconnection and with it clearAllPendingRequests; stop() returns
BLEProxy_stop_Return ==
  /\ proxy = "closing"
  /\ ServersClosed
  /\ proxy' = "returned"
  /\ IF connected
     THEN /\ connected' = FALSE
          /\ requestCharacteristic' = 0
          /\ disconnectedEvents' = disconnectedEvents + 1
          /\ sinks' = clearAllPendingRequests(pendingRequests, sinks)
          /\ pendingRequests' = EmptyMap
          /\ peerHas' = {}
          /\ UNCHANGED << epoch, lastChunk >>
     ELSE UNCHANGED << linkVars, sinks, pendingRequests, peerHas >>
  /\ UNCHANGED << handler, inflight, now, sweepDue >>
  /\ StopUnchanged

StopNext ==
  \/ \E r \in Reqs : Listening /\ handleHTTPRequest(r)
  \/ \E r \in Reqs : proxyHTTPRequest_Store(r)
  \/ \E r \in Reqs : proxyHTTPRequest_CollectFailed(r)
  \/ \E r \in Reqs : Listening /\ handleHTTPSConnect(r)
  \/ \E r \in Reqs : proxy_sendRequest(r)
  \/ \E r \in Reqs : sendChunkedData_Next(r)
  \/ \E r \in Reqs : sendChunkedData_WriteFailed(r)
  \/ \E r \in Reqs : PeerRespond(r)
  \/ \E m \in inflight : handleBLEResponse(m)
  \/ LinkUp
  \/ LinkDown
  \/ Sweep
  \/ Tick
  \/ BLEProxy_stop
  \/ BLEProxy_stop_Return

SpecStop == Init /\ [][StopNext]_vars

\* C40: stop() answers every pending request with 503, leaves the pending
\* table empty and cancels the periodic sweep; after stop() has returned no
\* sweep runs and no request is answered.
C40_StopAnswersAllAndSilences ==
  [][/\ (proxy = "running" /\ proxy' = "closing") =>
          /\ \A r \in DOMAIN pendingRequests :
               /\ Len(sinks'[r]) = Len(sinks[r]) + 1
               /\ sinks'[r][Len(sinks'[r])].code = 503
          /\ pendingRequests' = EmptyMap
          /\ sweepDue' = NoSweep
     /\ (proxy = "closing" /\ proxy' = "returned") => pendingRequests' = EmptyMap
     /\ proxy = "returned" =>
          /\ sinks' = sinks
          /\ sweepDue' = sweepDue]_vars

====
